---- MODULE Spec2Model ----
(***************************************************************************)
(* State-machine model of the gaming-laptops-store backend: the entity     *)
(* store (users, brands, categories, base products, images, product        *)
(* variants) and the request handlers of users/views.py and                *)
(* products/views.py with the serializers they call.  One action is one    *)
(* HTTP request handled to completion; resp is the response it returned.   *)
(* The specifications of concurrent requests split a handler into its      *)
(* database statements; inflight holds the requests being handled, each    *)
(* with what its handler has read or written so far.                       *)
(* Free-text columns that no handler reads (descriptions, first and last   *)
(* names, passwords, timestamps) are left out of the records.              *)
(***************************************************************************)
EXTENDS Integers, Sequences, FiniteSets, TLC

VARIABLES users, brands, categories, products, images, imageSeq, variants,
          lastOk, resp, inflight

vars == <<users, brands, categories, products, images, imageSeq, variants,
          lastOk, resp, inflight>>

store == <<users, brands, categories, products, images, imageSeq, variants>>

(***************************************************************************)
(* Bounds of the model.                                                    *)
(***************************************************************************)
MaxUsers == 2
MaxBrands == 2
MaxCategories == 1
MaxProducts == 1
MaxImages == 1
MaxVariants == 1

\* The connections that handle requests at the same time, and a connection
\* that handles none.
Threads == { "t1", "t2" }
Idle == [pc |-> "idle"]
NoRequests == [t \in Threads |-> Idle]

(***************************************************************************)
(* Inputs of the requests.  A name is a tuple of characters, so that       *)
(* slugify can be computed on it.                                          *)
(***************************************************************************)
\* A field a request may leave out: Absent, or Some(value).
Absent == <<>>
Some(x) == <<x>>
Val(o) == o[1]

BrandNameInputs == { <<"M", "S", "I">> }
CategoryNameInputs == { <<"L", "a", "p">> }
ModelA == <<"G", "F", " ", "6", "3">>
ModelB == <<"N", "i", "t", "r", "o", "!">>
ModelNameInputs == { ModelA, ModelB }
LongDescriptionA == <<"R","G","B">>
LongDescriptionB == <<"g","f","x">>

EmailInputs == { [local |-> "ana", domain |-> "Shop.io"],
                 [local |-> "ana", domain |-> "shop.io"] }
AdminEmail == [local |-> "root", domain |-> "shop.io"]
PasswordA == "pw-a"
PasswordB == "pw-b"
AdminPassword == "pw-root"
PasswordInputs == { PasswordA, PasswordB }

\* JSON values: a type tag and the content; the content of an object maps its
\* keys to JSON values, the content of a string is its characters.
JString(chars) == [type |-> "string", v |-> chars]
JObject(members) == [type |-> "object", v |-> members]
JNull == [type |-> "null", v |-> "null"]

\* JSON payloads of the specs field.
SpecsObject == JObject([weight |-> JString(<<"2","k","g">>)])
SpecsObject2 == JObject([battery |-> JString(<<"6","0","W","h">>)])
SpecsInputs == { SpecsObject, SpecsObject2,
                 [type |-> "string", v |-> "i5"],
                 [type |-> "array", v |-> "list"],
                 JNull }

PriceInputs == { -1, 0, 1, 2 }
ConditionChoices == { "nuevo", "open_box", "refurbished", "usado" }
StatusStockChoices == { "en_stock", "en_camino", "por_importacion", "sin_stock" }
ConditionInputs == { "nuevo", "usado" }
StockInputs == { "en_stock" }

(***************************************************************************)
(* Helper on sequences.                                                    *)
(***************************************************************************)
Range(s) == { s[i] : i \in DOMAIN s }

(***************************************************************************)
(* django.utils.text.slugify on ASCII input: lower-case, drop every        *)
(* character that is not a word character, white space or a hyphen,        *)
(* collapse runs of hyphens and white space into one hyphen, strip         *)
(* leading and trailing hyphens and underscores.                           *)
(***************************************************************************)
UpperCase == <<"A","B","C","D","E","F","G","H","I","J","K","L","M",
               "N","O","P","Q","R","S","T","U","V","W","X","Y","Z">>
LowerCase == <<"a","b","c","d","e","f","g","h","i","j","k","l","m",
               "n","o","p","q","r","s","t","u","v","w","x","y","z">>
Digits == {"0","1","2","3","4","5","6","7","8","9"}

Lower(c) == IF \E i \in DOMAIN UpperCase : UpperCase[i] = c
            THEN LowerCase[CHOOSE i \in DOMAIN UpperCase : UpperCase[i] = c]
            ELSE c

IsWordChar(c) == c \in Range(LowerCase) \cup Range(UpperCase) \cup Digits \cup {"_"}
IsSepChar(c) == c \in {" ", "-"}

RECURSIVE KeepSlugChars(_)
KeepSlugChars(s) ==
    IF s = <<>> THEN <<>>
    ELSE LET c == Lower(Head(s))
         IN  IF IsWordChar(c) \/ IsSepChar(c)
             THEN <<c>> \o KeepSlugChars(Tail(s))
             ELSE KeepSlugChars(Tail(s))

RECURSIVE CollapseSeps(_)
CollapseSeps(s) ==
    IF s = <<>> THEN <<>>
    ELSE IF IsSepChar(Head(s))
         THEN IF Len(s) > 1 /\ IsSepChar(s[2])
              THEN CollapseSeps(Tail(s))
              ELSE <<"-">> \o CollapseSeps(Tail(s))
         ELSE <<Head(s)>> \o CollapseSeps(Tail(s))

RECURSIVE StripLeft(_)
StripLeft(s) ==
    IF s # <<>> /\ Head(s) \in {"-", "_"} THEN StripLeft(Tail(s)) ELSE s

RECURSIVE StripRight(_)
StripRight(s) ==
    IF s # <<>> /\ s[Len(s)] \in {"-", "_"}
    THEN StripRight(SubSeq(s, 1, Len(s) - 1))
    ELSE s

slugify(s) == StripRight(StripLeft(CollapseSeps(KeepSlugChars(s))))

(***************************************************************************)
(* Model schemas: the attribute names of each model class, against which   *)
(* the serializers' Meta.fields, the views' attribute reads and the ORM    *)
(* keyword arguments are resolved.                                         *)
(***************************************************************************)
BaseModelFields == { "active" }

BrandFields == BaseModelFields \cup { "id", "name", "slug" }

CategoryFields == BaseModelFields \cup { "id", "name", "slug", "description" }

BaseProductFields ==
    BaseModelFields \cup
    { "id", "model_name", "slug", "long_description", "brand", "categories",
      "specs", "user_last_modified", "creation_date", "update_date",
      "images", "product_variants" }

ProductVariantFields ==
    BaseModelFields \cup
    { "id", "base_product", "price", "description", "condition",
      "stock_status", "is_publishied", "user_last_modified",
      "creation_date", "update_date",
      "get_condition_display", "get_stock_status_display", "discount" }

ImageFields ==
    BaseModelFields \cup { "id", "product_variant", "imagen", "alt_text" }

UserFields ==
    { "id", "email", "first_name", "last_name", "creation_date",
      "last_access", "is_active", "is_staff", "password" }

\* rest_framework ModelSerializer: a name of Meta.fields that is neither
\* declared on the serializer nor an attribute of the model makes every use
\* of the serializer raise ImproperlyConfigured.
SerializerConfigured(metaFields, declared, modelFields) ==
    (metaFields \ declared) \subseteq modelFields

\* An ORM that resolves every keyword argument.
KwargsResolve_Any(kwargs, modelFields) == TRUE

\* The ORM resolves keyword arguments of create() and filter() against the
\* model's fields: an unknown keyword raises TypeError or FieldError.
KwargsResolve(kwargs, modelFields) == kwargs \subseteq modelFields

\* Reading an attribute the instance does not have raises AttributeError.
HasAttr(modelFields, attr) == attr \in modelFields

(***************************************************************************)
(* Responses.                                                              *)
(***************************************************************************)
Response(op, pk, caller, status, errors) ==
    [op |-> op, pk |-> pk, caller |-> caller, status |-> status, errors |-> errors]

HTTP_200_OK == 200
HTTP_201_CREATED == 201
HTTP_400_BAD_REQUEST == 400

\* get_object_or_404 / get_object found no row.
NotFound(op, pk, caller) == Response(op, pk, caller, 404, {"not_found"})

\* An exception no handler catches: the framework answers 500.
ServerError(op, pk, caller, exception) == Response(op, pk, caller, 500, {exception})

\* serializer.is_valid(raise_exception=True) failed on these fields.
ValidationError(op, pk, caller, fields) ==
    Response(op, pk, caller, HTTP_400_BAD_REQUEST, fields)

(***************************************************************************)
(* Users.                                                                  *)
(***************************************************************************)
LowerDomain(d) == IF d = "Shop.io" THEN "shop.io" ELSE d

\* BaseUserManager.normalize_email lower-cases the domain part.
normalize_email(email) == [local |-> email.local, domain |-> LowerDomain(email.domain)]

\* A permission check that lets every caller through.
IsAuthenticated_AllowAny(u) == TRUE

\* permission_classes = [IsAuthenticated]: the token names an existing,
\* active user.
IsAuthenticated(u) == u \in DOMAIN users /\ users[u].is_active

Callers == 1..MaxUsers

Init ==
    /\ users = << [email |-> AdminEmail, password |-> AdminPassword, is_active |-> TRUE,
                   is_staff |-> TRUE] >>
    /\ brands = <<>>
    /\ categories = <<>>
    /\ products = <<>>
    /\ images = {}
    /\ imageSeq = 0
    /\ variants = <<>>
    /\ lastOk = {}
    /\ resp = Response("none", 0, 0, 0, {})
    /\ inflight = NoRequests

(***************************************************************************)
(* The record of the last successful toggle of each entity and axis        *)
(* (history, for the alternation of activate and deactivate).              *)
(***************************************************************************)
RecordOk(kind, pk, axis, op) ==
    { t \in lastOk : ~(t.kind = kind /\ t.pk = pk /\ t.axis = axis) }
        \cup { [kind |-> kind, pk |-> pk, axis |-> axis, op |-> op] }

LastOkOp(kind, pk, axis) ==
    IF \E t \in lastOk : t.kind = kind /\ t.pk = pk /\ t.axis = axis
    THEN (CHOOSE t \in lastOk : t.kind = kind /\ t.pk = pk /\ t.axis = axis).op
    ELSE "none"

(***************************************************************************)
(* users/serializers.py, users/views.py                                    *)
(***************************************************************************)
UserSerializerFields == { "first_name", "last_name", "email", "last_access", "is_active" }

\* UserCreateSerializer.validate_email: the address as sent is looked up.
UserCreate_validate_email(value) ==
    ~ \E i \in DOMAIN users : users[i].email = value

\* UserManager.create_user: the row holds the normalized address and the
\* password set_password stores (its hash, which only that password matches).
create_user(email, password) ==
    [email |-> normalize_email(email), password |-> password, is_active |-> TRUE,
     is_staff |-> FALSE]

\* The unique constraint of User.email.
UserEmailTaken(email, except) ==
    \E i \in DOMAIN users : i # except /\ users[i].email = email

\* UserCreateView.create (public endpoint).
UserCreateView(email, password) ==
    /\ Len(users) < MaxUsers
    /\ LET pk == Len(users) + 1
           row == create_user(email, password)
       IN  IF ~UserCreate_validate_email(email)
           THEN /\ resp' = ValidationError("user_create", 0, 0, {"email"})
                /\ UNCHANGED users
           ELSE IF UserEmailTaken(row.email, 0)
           THEN /\ resp' = ServerError("user_create", 0, 0, "IntegrityError")
                /\ UNCHANGED users
           ELSE /\ users' = Append(users, row)
                /\ resp' = Response("user_create", pk, 0, HTTP_201_CREATED, {})
    /\ UNCHANGED <<brands, categories, products, images, imageSeq, variants,
                   lastOk, inflight>>

\* UserActivateView.post
UserActivateView(u, pk) ==
    /\ IsAuthenticated(u)
    /\ IF pk \notin DOMAIN users
       THEN /\ resp' = NotFound("user_activate", pk, u)
            /\ UNCHANGED <<users, lastOk>>
       ELSE IF users[pk].is_active
       THEN /\ resp' = Response("user_activate", pk, u, HTTP_400_BAD_REQUEST, {"already"})
            /\ UNCHANGED <<users, lastOk>>
       ELSE /\ users' = [users EXCEPT ![pk].is_active = TRUE]
            /\ IF SerializerConfigured(UserSerializerFields, {}, UserFields)
               THEN /\ resp' = Response("user_activate", pk, u, HTTP_200_OK, {})
                    /\ lastOk' = RecordOk("user", pk, "active", "activate")
               ELSE /\ resp' = ServerError("user_activate", pk, u, "ImproperlyConfigured")
                    /\ UNCHANGED lastOk
    /\ UNCHANGED <<brands, categories, products, images, imageSeq, variants, inflight>>

\* UserDeactivateView.post
UserDeactivateView(u, pk) ==
    /\ IsAuthenticated(u)
    /\ IF pk \notin DOMAIN users
       THEN /\ resp' = NotFound("user_deactivate", pk, u)
            /\ UNCHANGED <<users, lastOk>>
       ELSE IF ~users[pk].is_active
       THEN /\ resp' = Response("user_deactivate", pk, u, HTTP_400_BAD_REQUEST, {"already"})
            /\ UNCHANGED <<users, lastOk>>
       ELSE /\ users' = [users EXCEPT ![pk].is_active = FALSE]
            /\ IF SerializerConfigured(UserSerializerFields, {}, UserFields)
               THEN /\ resp' = Response("user_deactivate", pk, u, HTTP_200_OK, {})
                    /\ lastOk' = RecordOk("user", pk, "active", "deactivate")
               ELSE /\ resp' = ServerError("user_deactivate", pk, u, "ImproperlyConfigured")
                    /\ UNCHANGED lastOk
    /\ UNCHANGED <<brands, categories, products, images, imageSeq, variants, inflight>>

(***************************************************************************)
(* Brand and Category: models, serializers, views.                         *)
(***************************************************************************)
BrandSerializerFields == { "id", "name", "slug", "active" }
CategorySerializerFields == { "id", "name", "slug", "description", "active" }

\* Brand.save without the test of the existing slug.
Brand_save_Always(row) == [row EXCEPT !.slug = slugify(row.name)]

\* Brand.save / Category.save: the slug is derived from the name when empty.
Brand_save(row) ==
    IF row.slug = <<>> THEN [row EXCEPT !.slug = slugify(row.name)] ELSE row

Category_save(row) ==
    IF row.slug = <<>> THEN [row EXCEPT !.slug = slugify(row.name)] ELSE row

\* unique=True on name and on slug: another row holds the value.
NameOrSlugTaken(table, pk, row) ==
    \E i \in DOMAIN table :
        i # pk /\ (table[i].name = row.name \/ table[i].slug = row.slug)

\* The UniqueValidator the ModelSerializer derives from name's unique=True.
NameUnique(table, pk, name) ==
    ~ \E i \in DOMAIN table : i # pk /\ table[i].name = name

\* BrandCreateView.create with BrandCreateSerializer.create
BrandCreateView(u, name) ==
    /\ IsAuthenticated(u)
    /\ Len(brands) < MaxBrands
    /\ LET pk == Len(brands) + 1
           row == Brand_save([name |-> name, slug |-> <<>>, active |-> TRUE])
       IN  IF ~NameUnique(brands, 0, name)
           THEN /\ resp' = ValidationError("brand_create", 0, u, {"name"})
                /\ UNCHANGED brands
           ELSE IF NameOrSlugTaken(brands, 0, row)
           THEN /\ resp' = ServerError("brand_create", 0, u, "IntegrityError")
                /\ UNCHANGED brands
           ELSE /\ brands' = Append(brands, row)
                /\ resp' = Response("brand_create", pk, u, HTTP_201_CREATED, {})
    /\ UNCHANGED <<users, categories, products, images, imageSeq, variants,
                   lastOk, inflight>>

\* CategoryCreateView.create with CategoryCreateSerializer.create
CategoryCreateView(u, name) ==
    /\ IsAuthenticated(u)
    /\ Len(categories) < MaxCategories
    /\ LET pk == Len(categories) + 1
           row == Category_save([name |-> name, slug |-> <<>>, active |-> TRUE])
       IN  IF ~NameUnique(categories, 0, name)
           THEN /\ resp' = ValidationError("category_create", 0, u, {"name"})
                /\ UNCHANGED categories
           ELSE IF NameOrSlugTaken(categories, 0, row)
           THEN /\ resp' = ServerError("category_create", 0, u, "IntegrityError")
                /\ UNCHANGED categories
           ELSE /\ categories' = Append(categories, row)
                /\ resp' = Response("category_create", pk, u, HTTP_201_CREATED, {})
    /\ UNCHANGED <<users, brands, products, images, imageSeq, variants, lastOk, inflight>>

\* TogglePost without the check of the current value of the flag.
TogglePost_NoStateCheck(table, pk, target, saved, taken, configured) ==
    IF pk \notin DOMAIN table
    THEN [status |-> 404, errors |-> {"not_found"}, table |-> table]
    ELSE IF taken
    THEN [status |-> 500, errors |-> {"IntegrityError"}, table |-> table]
    ELSE IF ~configured
    THEN [status |-> 500, errors |-> {"ImproperlyConfigured"},
          table |-> [table EXCEPT ![pk] = saved]]
    ELSE [status |-> HTTP_200_OK, errors |-> {},
          table |-> [table EXCEPT ![pk] = saved]]

\* The post() of a Brand or Category activate/deactivate view on row pk of
\* table: the outcome and the table it leaves (save() is not in a transaction,
\* so the row is written before the response is serialized).
TogglePost(table, pk, target, saved, taken, configured) ==
    IF pk \notin DOMAIN table
    THEN [status |-> 404, errors |-> {"not_found"}, table |-> table]
    ELSE IF table[pk].active = target
    THEN [status |-> HTTP_400_BAD_REQUEST, errors |-> {"already"}, table |-> table]
    ELSE IF taken
    THEN [status |-> 500, errors |-> {"IntegrityError"}, table |-> table]
    ELSE IF ~configured
    THEN [status |-> 500, errors |-> {"ImproperlyConfigured"},
          table |-> [table EXCEPT ![pk] = saved]]
    ELSE [status |-> HTTP_200_OK, errors |-> {},
          table |-> [table EXCEPT ![pk] = saved]]

ToggleOp(target) == IF target THEN "activate" ELSE "deactivate"

ToggleLastOk(kind, pk, axis, op, status) ==
    IF status = HTTP_200_OK THEN RecordOk(kind, pk, axis, op) ELSE lastOk

\* BrandActivateView.post (target TRUE), BrandDeactivateView.post (target FALSE)
BrandToggle(u, pk, target) ==
    LET saved == Brand_save([brands[pk] EXCEPT !.active = target])
        out == TogglePost(brands, pk, target, saved,
                          pk \in DOMAIN brands /\ NameOrSlugTaken(brands, pk, saved),
                          SerializerConfigured(BrandSerializerFields, {}, BrandFields))
    IN  /\ IsAuthenticated(u)
        /\ brands' = out.table
        /\ resp' = Response("brand_" \o ToggleOp(target), pk, u, out.status, out.errors)
        /\ lastOk' = ToggleLastOk("brand", pk, "active", ToggleOp(target), out.status)
        /\ UNCHANGED <<users, categories, products, images, imageSeq, variants, inflight>>

BrandActivateView(u, pk) == BrandToggle(u, pk, TRUE)

BrandDeactivateView(u, pk) == BrandToggle(u, pk, FALSE)

\* CategoryActivateView.post, CategoryDeactivateView.post
CategoryToggle(u, pk, target) ==
    LET saved == Category_save([categories[pk] EXCEPT !.active = target])
        out == TogglePost(categories, pk, target, saved,
                          pk \in DOMAIN categories /\ NameOrSlugTaken(categories, pk, saved),
                          SerializerConfigured(CategorySerializerFields, {}, CategoryFields))
    IN  /\ IsAuthenticated(u)
        /\ categories' = out.table
        /\ resp' = Response("category_" \o ToggleOp(target), pk, u, out.status, out.errors)
        /\ lastOk' = ToggleLastOk("category", pk, "active", ToggleOp(target), out.status)
        /\ UNCHANGED <<users, brands, products, images, imageSeq, variants, inflight>>

CategoryActivateView(u, pk) == CategoryToggle(u, pk, TRUE)

CategoryDeactivateView(u, pk) == CategoryToggle(u, pk, FALSE)

(***************************************************************************)
(* BaseProduct: model, serializers, views.                                 *)
(***************************************************************************)
BaseProductSerializerFields ==
    { "id", "model_name", "slug", "long_description", "brand", "categories",
      "specs", "active", "creation_date", "update_date", "images" }

ImageSerializerFields == { "id", "imagen", "alt_text", "active" }

\* The keyword arguments of Image.objects.create(base_product=..., **image_data)
ImageCreateKwargs == { "base_product", "imagen", "alt_text" }

\* The lookups of Image.objects.filter(id__in=..., base_product=instance)
ImageFilterKwargs == { "id", "base_product" }

\* range(1, 5): the image_1..image_4 / alt_text_1..alt_text_4 slots.
ImageSlots == 4

NoSlot == [imagen |-> FALSE, alt_text |-> ""]
ImageSlotInputs ==
    { [i \in 1..ImageSlots |-> NoSlot],
      [i \in 1..ImageSlots |-> IF i = 1 THEN [imagen |-> TRUE, alt_text |-> "front"] ELSE NoSlot],
      [i \in 1..ImageSlots |-> IF i = 2 THEN [imagen |-> FALSE, alt_text |-> "side"] ELSE NoSlot] }

\* BaseProduct.save without the test of the existing slug.
BaseProduct_save_Always(row) ==
    [row EXCEPT !.slug = slugify(brands[row.brand].name \o <<"-">> \o row.model_name)]

\* BaseProduct.save: the slug is derived from brand name and model name when
\* empty.
BaseProduct_save(row) ==
    IF row.slug = <<>>
    THEN [row EXCEPT !.slug = slugify(brands[row.brand].name \o <<"-">> \o row.model_name)]
    ELSE row

\* A slug column without the unique constraint.
SlugTaken_Never(table, pk, row) == FALSE

\* unique=True on BaseProduct.slug.
SlugTaken(table, pk, row) ==
    \E i \in DOMAIN table : i # pk /\ table[i].slug = row.slug

\* BaseProductCreateSerializer.validate_categories
BaseProductCreate_validate_categories(value) ==
    /\ value # <<>>
    /\ Cardinality({ c \in DOMAIN categories :
                        c \in Range(value) /\ categories[c].active }) = Len(value)

\* BaseProductCreateSerializer.validate_brand
BaseProductCreate_validate_brand(value) == brands[value].active

\* validate_specs that accepts every value.
BaseProductCreate_validate_specs_Any(value) == TRUE

\* BaseProductCreateSerializer.validate_specs
BaseProductCreate_validate_specs(value) == value.type = "object"

\* BaseProductUpdateSerializer.validate_categories
BaseProductUpdate_validate_categories(value) ==
    value # <<>> =>
        Cardinality({ c \in DOMAIN categories :
                         c \in Range(value) /\ categories[c].active }) = Len(value)

\* BaseProductUpdateSerializer.validate_brand
BaseProductUpdate_validate_brand(value) == brands[value].active

\* validate_specs without the isinstance(value, dict) check.
BaseProductUpdate_validate_specs_Any(value) == TRUE

\* BaseProductUpdateSerializer.validate_specs
BaseProductUpdate_validate_specs(value) == value.type = "object"

\* The images_data list both serializers build from the slots.
ImagesData(slots) ==
    LET idx == { i \in 1..ImageSlots : slots[i].imagen }
        F[k \in 0..ImageSlots] ==
            IF k = 0 THEN <<>>
            ELSE IF k \in idx THEN Append(F[k - 1], slots[k]) ELSE F[k - 1]
    IN  F[ImageSlots]

\* A transaction's working copy of the tables a product write touches.
Tx == [products |-> products, images |-> images, imageSeq |-> imageSeq]

Raise(tx, exception) == [raised |-> exception, tx |-> tx]
Done(tx) == [raised |-> "none", tx |-> tx]

\* The loop of Image.objects.create calls that ends create() and update().
RECURSIVE CreateImages(_, _, _)
CreateImages(tx, pk, images_data) ==
    IF images_data = <<>> THEN Done(tx)
    ELSE IF ~KwargsResolve(ImageCreateKwargs, ImageFields)
    THEN Raise(tx, "TypeError")
    ELSE LET id == tx.imageSeq + 1
             img == [id |-> id, product_variant |-> pk,
                     alt_text |-> Head(images_data).alt_text, active |-> TRUE]
         IN  CreateImages([tx EXCEPT !.images = @ \cup {img}, !.imageSeq = id],
                          pk, Tail(images_data))

\* @transaction.atomic: an exception discards every write of the request.
atomic(before, out) == IF out.raised = "none" THEN out.tx ELSE before

\* The row BaseProductCreateSerializer.create inserts.
BaseProductCreate_row(data, user) ==
    [model_name |-> data.model_name, long_description |-> data.long_description,
     slug |-> <<>>, brand |-> data.brand,
     categories |-> {}, specs |-> data.specs, active |-> TRUE,
     user_last_modified |-> user]

\* BaseProductCreateSerializer.create
BaseProductCreate_create(tx, data, user) ==
    LET pk == Len(tx.products) + 1
        row == BaseProduct_save(BaseProductCreate_row(data, user))
    IN  IF SlugTaken(tx.products, 0, row)
        THEN Raise(tx, "IntegrityError")
        ELSE LET tx1 == [tx EXCEPT !.products = Append(@, row)]
                 tx2 == [tx1 EXCEPT !.products[pk].categories = Range(data.categories)]
             IN  CreateImages(tx2, pk, ImagesData(data.slots))

\* The field errors of BaseProductCreateSerializer.is_valid
BaseProductCreate_errors(data) ==
    (IF data.brand \notin DOMAIN brands \/ ~BaseProductCreate_validate_brand(data.brand)
     THEN {"brand"} ELSE {})
    \cup (IF ~BaseProductCreate_validate_categories(data.categories)
          THEN {"categories"} ELSE {})
    \cup (IF data.specs.type = "null" \/ ~BaseProductCreate_validate_specs(data.specs)
          THEN {"specs"} ELSE {})

\* BaseProductCreateView.create
BaseProductCreateView_create(u, data) ==
    /\ IsAuthenticated(u)
    /\ LET errors == BaseProductCreate_errors(data)
           out == BaseProductCreate_create(Tx, data, u)
           after == atomic(Tx, out)
       IN  IF errors # {}
           THEN /\ resp' = ValidationError("product_create", 0, u, errors)
                /\ UNCHANGED <<products, images, imageSeq>>
           ELSE /\ products' = after.products
                /\ images' = after.images
                /\ imageSeq' = after.imageSeq
                /\ resp' = IF out.raised # "none"
                           THEN ServerError("product_create", 0, u, out.raised)
                           ELSE IF ~SerializerConfigured(BaseProductSerializerFields, {},
                                                         BaseProductFields)
                           THEN ServerError("product_create", 0, u, "ImproperlyConfigured")
                           ELSE Response("product_create", Len(products) + 1, u,
                                         HTTP_201_CREATED, {})
    /\ UNCHANGED <<users, brands, categories, variants, lastOk, inflight>>

\* BaseProductCreateView.create while the table holds fewer than MaxProducts
\* rows.
BaseProductCreateView(u, data) ==
    /\ Len(products) < MaxProducts
    /\ BaseProductCreateView_create(u, data)

\* validated_data.get(name, instance value)
Get(data, name, default) == IF data[name] = Absent THEN default ELSE Val(data[name])

\* The removal step of BaseProductUpdateSerializer.update
RemoveImages(tx, pk, remove_images) ==
    IF remove_images = <<>> THEN Done(tx)
    ELSE IF ~KwargsResolve(ImageFilterKwargs, ImageFields)
    THEN Raise(tx, "FieldError")
    ELSE Done([tx EXCEPT !.images =
                  { img \in @ : ~(img.id \in Range(remove_images)
                                  /\ img.product_variant = pk) }])

\* The assignment of the basic fields without the user_last_modified line.
BaseProductUpdate_row_NoUser(instance, data, user) ==
    [instance EXCEPT !.model_name = Get(data, "model_name", instance.model_name),
                     !.long_description =
                         Get(data, "long_description", instance.long_description),
                     !.brand = Get(data, "brand", instance.brand),
                     !.specs = Get(data, "specs", instance.specs)]

\* The assignment of the basic fields in BaseProductUpdateSerializer.update
BaseProductUpdate_row(instance, data, user) ==
    [instance EXCEPT !.model_name = Get(data, "model_name", instance.model_name),
                     !.long_description =
                         Get(data, "long_description", instance.long_description),
                     !.brand = Get(data, "brand", instance.brand),
                     !.specs = Get(data, "specs", instance.specs),
                     !.user_last_modified = user]

\* BaseProductUpdateSerializer.update
BaseProductUpdate_update(tx, pk, data, user) ==
    LET removed == RemoveImages(tx, pk, data.remove_images)
        row == BaseProduct_save(BaseProductUpdate_row(tx.products[pk], data, user))
    IN  IF removed.raised # "none" THEN removed
        ELSE IF SlugTaken(tx.products, pk, row) THEN Raise(removed.tx, "IntegrityError")
        ELSE LET tx1 == [removed.tx EXCEPT !.products[pk] = row]
                 tx2 == IF data.categories # Absent
                        THEN [tx1 EXCEPT !.products[pk].categories = Range(Val(data.categories))]
                        ELSE tx1
             IN  CreateImages(tx2, pk, ImagesData(data.slots))

\* The field errors of BaseProductUpdateSerializer.is_valid
BaseProductUpdate_errors(data) ==
    (IF data.brand # Absent
        /\ (Val(data.brand) \notin DOMAIN brands
            \/ ~BaseProductUpdate_validate_brand(Val(data.brand)))
     THEN {"brand"} ELSE {})
    \cup (IF data.categories # Absent
             /\ ~BaseProductUpdate_validate_categories(Val(data.categories))
          THEN {"categories"} ELSE {})
    \cup (IF data.specs # Absent
             /\ (Val(data.specs).type = "null"
                 \/ ~BaseProductUpdate_validate_specs(Val(data.specs)))
          THEN {"specs"} ELSE {})

\* BaseProductUpdateView.update
BaseProductUpdateView(u, pk, data) ==
    /\ IsAuthenticated(u)
    /\ IF pk \notin DOMAIN products
       THEN /\ resp' = NotFound("product_update", pk, u)
            /\ UNCHANGED <<products, images, imageSeq>>
       ELSE LET errors == BaseProductUpdate_errors(data)
                out == BaseProductUpdate_update(Tx, pk, data, u)
                after == atomic(Tx, out)
            IN  IF errors # {}
                THEN /\ resp' = ValidationError("product_update", pk, u, errors)
                     /\ UNCHANGED <<products, images, imageSeq>>
                ELSE /\ products' = after.products
                     /\ images' = after.images
                     /\ imageSeq' = after.imageSeq
                     /\ resp' = IF out.raised # "none"
                                THEN ServerError("product_update", pk, u, out.raised)
                                ELSE IF ~SerializerConfigured(BaseProductSerializerFields, {},
                                                              BaseProductFields)
                                THEN ServerError("product_update", pk, u, "ImproperlyConfigured")
                                ELSE Response("product_update", pk, u, HTTP_200_OK, {})
    /\ UNCHANGED <<users, brands, categories, variants, lastOk, inflight>>

\* BaseProductActivateView.post, BaseProductDeactivateView.post
BaseProductToggle(u, pk, target) ==
    LET saved == BaseProduct_save([products[pk] EXCEPT !.active = target])
        out == TogglePost(products, pk, target, saved,
                          pk \in DOMAIN products /\ SlugTaken(products, pk, saved),
                          SerializerConfigured(BaseProductSerializerFields, {},
                                               BaseProductFields))
    IN  /\ IsAuthenticated(u)
        /\ products' = out.table
        /\ resp' = Response("product_" \o ToggleOp(target), pk, u, out.status, out.errors)
        /\ lastOk' = ToggleLastOk("product", pk, "active", ToggleOp(target), out.status)
        /\ UNCHANGED <<users, brands, categories, images, imageSeq, variants, inflight>>

BaseProductActivateView(u, pk) == BaseProductToggle(u, pk, TRUE)

BaseProductDeactivateView(u, pk) == BaseProductToggle(u, pk, FALSE)

\* admin.site.register(Image): a staff user adds an image through the admin
\* site, which sets the model's own foreign key, product_variant.
AdminAddImage(u, pk, alt_text) ==
    /\ u \in DOMAIN users /\ users[u].is_active /\ users[u].is_staff
    /\ Cardinality(images) < MaxImages
    /\ pk \in DOMAIN products
    /\ images' = images \cup { [id |-> imageSeq + 1, product_variant |-> pk,
                                alt_text |-> alt_text, active |-> TRUE] }
    /\ imageSeq' = imageSeq + 1
    /\ resp' = Response("admin_add_image", imageSeq + 1, u, HTTP_200_OK, {})
    /\ UNCHANGED <<users, brands, categories, products, variants, lastOk, inflight>>

(***************************************************************************)
(* ProductVariant: model, serializers, views.                              *)
(***************************************************************************)
ProductVariantSerializerFields ==
    { "id", "base_product", "price", "condition", "condition_display",
      "stock_status", "stock_status_display", "is_published", "active",
      "creation_date", "update_date" }

\* The fields ProductVariantSerializer declares itself.
ProductVariantSerializerDeclared ==
    { "base_product", "condition_display", "stock_status_display" }

\* Meta.fields of ProductVariantCreateSerializer and ProductVariantUpdateSerializer
ProductVariantWriteFields ==
    { "base_product", "price", "condition", "stock_status", "is_published" }

\* ProductVariantCreateSerializer.validate_base_product
ProductVariantCreate_validate_base_product(value) == products[value].active

\* ProductVariantCreateSerializer.validate_price
ProductVariantCreate_validate_price(value) == ~(value <= 0)

\* ProductVariantUpdateSerializer.validate_base_product
ProductVariantUpdate_validate_base_product(value) == products[value].active

\* ProductVariantUpdateSerializer.validate_price
ProductVariantUpdate_validate_price(value) == ~(value <= 0)

\* The field errors of ProductVariantCreateSerializer.is_valid
ProductVariantCreate_errors(data) ==
    (IF data.base_product \notin DOMAIN products
        \/ ~ProductVariantCreate_validate_base_product(data.base_product)
     THEN {"base_product"} ELSE {})
    \cup (IF ~ProductVariantCreate_validate_price(data.price) THEN {"price"} ELSE {})
    \cup (IF data.condition \notin ConditionChoices THEN {"condition"} ELSE {})
    \cup (IF data.stock_status \notin StatusStockChoices THEN {"stock_status"} ELSE {})

\* ProductVariantCreateSerializer.create: objects.create(**validated_data,
\* user_last_modified=user)
ProductVariantCreate_create(table, data, user) ==
    IF ~KwargsResolve(ProductVariantWriteFields \cup {"user_last_modified"},
                      ProductVariantFields)
    THEN [raised |-> "TypeError", table |-> table]
    ELSE [raised |-> "none",
          table |-> Append(table,
                      [base_product |-> data.base_product, price |-> data.price,
                       condition |-> data.condition, stock_status |-> data.stock_status,
                       is_publishied |-> data.is_published, active |-> TRUE,
                       user_last_modified |-> user])]

\* The outcome of a ProductVariant write view: the serializer's fields are
\* built first, then is_valid, then save() inside the view's transaction,
\* then the response serializer.
VariantWriteOutcome(errors, out) ==
    IF ~SerializerConfigured(ProductVariantWriteFields, {}, ProductVariantFields)
    THEN [status |-> 500, errors |-> {"ImproperlyConfigured"}, commit |-> FALSE]
    ELSE IF errors # {}
    THEN [status |-> HTTP_400_BAD_REQUEST, errors |-> errors, commit |-> FALSE]
    ELSE IF out.raised # "none"
    THEN [status |-> 500, errors |-> {out.raised}, commit |-> FALSE]
    ELSE IF ~SerializerConfigured(ProductVariantSerializerFields,
                                  ProductVariantSerializerDeclared, ProductVariantFields)
    THEN [status |-> 500, errors |-> {"ImproperlyConfigured"}, commit |-> FALSE]
    ELSE [status |-> HTTP_200_OK, errors |-> {}, commit |-> TRUE]

\* ProductVariantCreateView.create
ProductVariantCreateView(u, data) ==
    /\ IsAuthenticated(u)
    /\ Len(variants) < MaxVariants
    /\ LET out == ProductVariantCreate_create(variants, data, u)
           res == VariantWriteOutcome(ProductVariantCreate_errors(data), out)
       IN  /\ variants' = IF res.commit THEN out.table ELSE variants
           /\ resp' = IF res.commit
                      THEN Response("variant_create", Len(variants) + 1, u,
                                    HTTP_201_CREATED, {})
                      ELSE Response("variant_create", 0, u, res.status, res.errors)
    /\ UNCHANGED <<users, brands, categories, products, images, imageSeq,
                   lastOk, inflight>>

\* The field errors of ProductVariantUpdateSerializer.is_valid
ProductVariantUpdate_errors(data) ==
    (IF data.base_product # Absent
        /\ (Val(data.base_product) \notin DOMAIN products
            \/ ~ProductVariantUpdate_validate_base_product(Val(data.base_product)))
     THEN {"base_product"} ELSE {})
    \cup (IF data.price # Absent /\ ~ProductVariantUpdate_validate_price(Val(data.price))
          THEN {"price"} ELSE {})
    \cup (IF data.condition # Absent /\ Val(data.condition) \notin ConditionChoices
          THEN {"condition"} ELSE {})
    \cup (IF data.stock_status # Absent /\ Val(data.stock_status) \notin StatusStockChoices
          THEN {"stock_status"} ELSE {})

\* ProductVariantUpdateSerializer.update: instance.is_published is read when
\* the request leaves the field out; the assignment sets an attribute that is
\* no column, so save() does not store it.
ProductVariantUpdate_update(table, pk, data, user) ==
    IF data.is_published = Absent /\ ~HasAttr(ProductVariantFields, "is_published")
    THEN [raised |-> "AttributeError", table |-> table]
    ELSE [raised |-> "none",
          table |-> [table EXCEPT
              ![pk].base_product = Get(data, "base_product", table[pk].base_product),
              ![pk].price = Get(data, "price", table[pk].price),
              ![pk].condition = Get(data, "condition", table[pk].condition),
              ![pk].stock_status = Get(data, "stock_status", table[pk].stock_status),
              ![pk].is_publishied =
                  IF HasAttr(ProductVariantFields, "is_published")
                  THEN Get(data, "is_published", table[pk].is_publishied)
                  ELSE table[pk].is_publishied,
              ![pk].user_last_modified = user]]

\* ProductVariantUpdateView.update
ProductVariantUpdateView(u, pk, data) ==
    /\ IsAuthenticated(u)
    /\ IF pk \notin DOMAIN variants
       THEN /\ resp' = NotFound("variant_update", pk, u)
            /\ UNCHANGED variants
       ELSE LET out == ProductVariantUpdate_update(variants, pk, data, u)
                res == VariantWriteOutcome(ProductVariantUpdate_errors(data), out)
            IN  /\ variants' = IF res.commit THEN out.table ELSE variants
                /\ resp' = Response("variant_update", pk, u, res.status, res.errors)
    /\ UNCHANGED <<users, brands, categories, products, images, imageSeq,
                   lastOk, inflight>>

\* ProductVariantActivateView.post, ProductVariantDeactivateView.post
ProductVariantToggle(u, pk, target) ==
    LET saved == [variants[pk] EXCEPT !.active = target]
        out == TogglePost(variants, pk, target, saved, FALSE,
                          SerializerConfigured(ProductVariantSerializerFields,
                                               ProductVariantSerializerDeclared,
                                               ProductVariantFields))
    IN  /\ IsAuthenticated(u)
        /\ variants' = out.table
        /\ resp' = Response("variant_" \o ToggleOp(target), pk, u, out.status, out.errors)
        /\ lastOk' = ToggleLastOk("variant", pk, "active", ToggleOp(target), out.status)
        /\ UNCHANGED <<users, brands, categories, products, images, imageSeq, inflight>>

ProductVariantActivateView(u, pk) == ProductVariantToggle(u, pk, TRUE)

ProductVariantDeactivateView(u, pk) == ProductVariantToggle(u, pk, FALSE)

PublishOp(target) == IF target THEN "publish" ELSE "unpublish"

\* ProductVariantPublishView.post (target TRUE), ProductVariantUnpublishView.post
\* (target FALSE): the views read and write variant.is_published.
PublishPost(table, pk, target) ==
    IF pk \notin DOMAIN table
    THEN [status |-> 404, errors |-> {"not_found"}, table |-> table]
    ELSE IF ~HasAttr(ProductVariantFields, "is_published")
    THEN [status |-> 500, errors |-> {"AttributeError"}, table |-> table]
    ELSE IF table[pk].is_publishied = target
    THEN [status |-> HTTP_400_BAD_REQUEST, errors |-> {"already"}, table |-> table]
    ELSE IF ~SerializerConfigured(ProductVariantSerializerFields,
                                  ProductVariantSerializerDeclared, ProductVariantFields)
    THEN [status |-> 500, errors |-> {"ImproperlyConfigured"},
          table |-> [table EXCEPT ![pk].is_publishied = target]]
    ELSE [status |-> HTTP_200_OK, errors |-> {},
          table |-> [table EXCEPT ![pk].is_publishied = target]]

ProductVariantPublishToggle(u, pk, target) ==
    LET out == PublishPost(variants, pk, target)
    IN  /\ IsAuthenticated(u)
        /\ variants' = out.table
        /\ resp' = Response("variant_" \o PublishOp(target), pk, u, out.status, out.errors)
        /\ lastOk' = ToggleLastOk("variant", pk, "published", PublishOp(target), out.status)
        /\ UNCHANGED <<users, brands, categories, products, images, imageSeq, inflight>>

ProductVariantPublishView(u, pk) == ProductVariantPublishToggle(u, pk, TRUE)

ProductVariantUnpublishView(u, pk) == ProductVariantPublishToggle(u, pk, FALSE)

\* admin.site.register(ProductVariant): a staff user adds a variant through
\* the admin site; the flags keep the model's defaults.
AdminAddVariant(u, base_product, price, condition) ==
    /\ u \in DOMAIN users /\ users[u].is_active /\ users[u].is_staff
    /\ Len(variants) < MaxVariants
    /\ base_product \in DOMAIN products
    /\ variants' = Append(variants,
                     [base_product |-> base_product, price |-> price,
                      condition |-> condition, stock_status |-> "en_stock",
                      is_publishied |-> TRUE, active |-> TRUE,
                      user_last_modified |-> 0])
    /\ resp' = Response("admin_add_variant", Len(variants) + 1, u, HTTP_200_OK, {})
    /\ UNCHANGED <<users, brands, categories, products, images, imageSeq,
                   lastOk, inflight>>


(***************************************************************************)
(* The payloads the requests are drawn from.                               *)
(***************************************************************************)
NoSlots == [i \in 1..ImageSlots |-> NoSlot]

\* Category id lists: empty, single, repeated, unknown id, mixed.
CategoryListInputs == { <<>>, <<1>>, <<1, 1>>, <<2>>, <<1, 2>> }

BrandRefInputs == { 1, 2 }
ProductRefInputs == { 1, 2 }
RemoveImagesInputs == { <<1>>, <<2>>, <<1, 2>> }

ValidCreate(m, b) ==
    [model_name |-> m, long_description |-> LongDescriptionA, brand |-> b,
     categories |-> <<1>>, specs |-> SpecsObject, slots |-> NoSlots]

\* Create payloads: a complete payload with one field varied, and one with
\* two invalid fields.
CreateVariations(m, b) ==
    { [ValidCreate(m, b) EXCEPT !.categories = c] : c \in CategoryListInputs }
    \cup { [ValidCreate(m, b) EXCEPT !.specs = s] : s \in SpecsInputs }
    \cup { [ValidCreate(m, b) EXCEPT !.slots = sl] : sl \in ImageSlotInputs }
    \cup { [ValidCreate(m, b) EXCEPT !.categories = <<>>,
                                     !.specs = [type |-> "string", v |-> "i5"]] }

NoChange ==
    [model_name |-> Absent, long_description |-> Absent, brand |-> Absent,
     categories |-> Absent, specs |-> Absent, slots |-> NoSlots,
     remove_images |-> <<>>]

OneFieldUpdates ==
    { NoChange }
    \cup { [NoChange EXCEPT !.model_name = Some(m)] : m \in ModelNameInputs }
    \cup { [NoChange EXCEPT !.brand = Some(b)] : b \in BrandRefInputs }
    \cup { [NoChange EXCEPT !.categories = Some(c)] : c \in CategoryListInputs }
    \cup { [NoChange EXCEPT !.specs = Some(s)] : s \in SpecsInputs }
    \cup { [NoChange EXCEPT !.slots = sl] : sl \in ImageSlotInputs }

ImageUpdates ==
    { [NoChange EXCEPT !.slots = sl] : sl \in ImageSlotInputs }
    \cup { [NoChange EXCEPT !.remove_images = r] : r \in RemoveImagesInputs }
    \cup { [NoChange EXCEPT !.remove_images = r, !.slots = sl] :
             r \in RemoveImagesInputs, sl \in ImageSlotInputs }

\* d with a new model name as well.
Renaming(D, m) == { [d EXCEPT !.model_name = Some(m)] : d \in D }

ValidVariant ==
    [base_product |-> 1, price |-> 1, condition |-> "nuevo",
     stock_status |-> "en_stock", is_published |-> TRUE]

\* Variant create payloads: a complete payload with one field varied.
ProductVariantCreateInputs ==
    { [ValidVariant EXCEPT !.base_product = p] : p \in ProductRefInputs }
    \cup { [ValidVariant EXCEPT !.price = x] : x \in PriceInputs }
    \cup { [ValidVariant EXCEPT !.condition = c] : c \in ConditionInputs }
    \cup { [ValidVariant EXCEPT !.is_published = b] : b \in BOOLEAN }

NoVariantChange ==
    [base_product |-> Absent, price |-> Absent, condition |-> Absent,
     stock_status |-> Absent, is_published |-> Absent]

\* Variant update payloads: at most one field supplied.
ProductVariantUpdateInputs ==
    { NoVariantChange }
    \cup { [NoVariantChange EXCEPT !.base_product = Some(p)] : p \in ProductRefInputs }
    \cup { [NoVariantChange EXCEPT !.price = Some(x)] : x \in PriceInputs }
    \cup { [NoVariantChange EXCEPT !.condition = Some(c)] : c \in ConditionInputs }
    \cup { [NoVariantChange EXCEPT !.stock_status = Some(c)] : c \in StockInputs }
    \cup { [NoVariantChange EXCEPT !.is_published = Some(b)] : b \in BOOLEAN }

(***************************************************************************)
(* Catalog writes: product and variant create and update, with the         *)
(* requests that set up and deactivate what they reference.  Products are  *)
(* created under one model name and renamed by updates.                    *)
(***************************************************************************)
WriteCreateInputs ==
    CreateVariations(ModelA, 1) \cup { ValidCreate(ModelA, b) : b \in BrandRefInputs }

WriteUpdateInputs == OneFieldUpdates

NextWrite ==
    \/ \E email \in EmailInputs : UserCreateView(email, PasswordA)
    \/ \E u \in Callers, name \in BrandNameInputs : BrandCreateView(u, name)
    \/ \E u \in Callers, pk \in 1..MaxBrands : BrandDeactivateView(u, pk)
    \/ \E u \in Callers, name \in CategoryNameInputs : CategoryCreateView(u, name)
    \/ \E u \in Callers, pk \in 1..MaxCategories : CategoryDeactivateView(u, pk)
    \/ \E u \in Callers, data \in WriteCreateInputs : BaseProductCreateView(u, data)
    \/ \E u \in Callers, pk \in 1..MaxProducts, data \in WriteUpdateInputs :
          BaseProductUpdateView(u, pk, data)
    \/ \E u \in Callers, pk \in 1..MaxProducts : BaseProductDeactivateView(u, pk)
    \/ \E u \in Callers, pk \in 1..MaxProducts : AdminAddVariant(u, pk, 1, "nuevo")
    \/ \E u \in Callers, data \in ProductVariantCreateInputs : ProductVariantCreateView(u, data)
    \/ \E u \in Callers, pk \in 1..MaxVariants, data \in ProductVariantUpdateInputs :
          ProductVariantUpdateView(u, pk, data)

SpecWrite == Init /\ [][NextWrite]_vars

(***************************************************************************)
(* Toggles: activate and deactivate of every entity kind, publish and      *)
(* unpublish of variants, with the requests that create the entities.      *)
(***************************************************************************)
NextToggle ==
    \/ \E email \in EmailInputs : UserCreateView(email, PasswordA)
    \/ \E u \in Callers, pk \in 1..MaxUsers : UserActivateView(u, pk)
    \/ \E u \in Callers, pk \in 1..MaxUsers : UserDeactivateView(u, pk)
    \/ \E u \in Callers, name \in BrandNameInputs : BrandCreateView(u, name)
    \/ \E u \in Callers, pk \in 1..MaxBrands : BrandActivateView(u, pk)
    \/ \E u \in Callers, pk \in 1..MaxBrands : BrandDeactivateView(u, pk)
    \/ \E u \in Callers, name \in CategoryNameInputs : CategoryCreateView(u, name)
    \/ \E u \in Callers, pk \in 1..MaxCategories : CategoryActivateView(u, pk)
    \/ \E u \in Callers, pk \in 1..MaxCategories : CategoryDeactivateView(u, pk)
    \/ \E u \in Callers : BaseProductCreateView(u, ValidCreate(ModelA, 1))
    \/ \E u \in Callers, pk \in 1..MaxProducts : BaseProductActivateView(u, pk)
    \/ \E u \in Callers, pk \in 1..MaxProducts : BaseProductDeactivateView(u, pk)
    \/ \E u \in Callers, pk \in 1..MaxProducts : AdminAddVariant(u, pk, 1, "nuevo")
    \/ \E u \in Callers, pk \in 1..MaxVariants : ProductVariantActivateView(u, pk)
    \/ \E u \in Callers, pk \in 1..MaxVariants : ProductVariantDeactivateView(u, pk)
    \/ \E u \in Callers, pk \in 1..MaxVariants : ProductVariantPublishView(u, pk)
    \/ \E u \in Callers, pk \in 1..MaxVariants : ProductVariantUnpublishView(u, pk)

SpecToggle == Init /\ [][NextToggle]_vars

(***************************************************************************)
(* Product images: updates that remove and add images of a product whose   *)
(* images were attached through the admin site.                            *)
(***************************************************************************)
ImageUpdateInputs == ImageUpdates \cup Renaming(ImageUpdates, ModelB)

NextImage ==
    \/ \E email \in EmailInputs : UserCreateView(email, PasswordA)
    \/ \E u \in Callers, name \in BrandNameInputs : BrandCreateView(u, name)
    \/ \E u \in Callers, name \in CategoryNameInputs : CategoryCreateView(u, name)
    \/ \E u \in Callers, data \in WriteCreateInputs : BaseProductCreateView(u, data)
    \/ \E u \in Callers, pk \in 1..MaxProducts : AdminAddImage(u, pk, "front")
    \/ \E u \in Callers, pk \in 1..MaxProducts, data \in ImageUpdateInputs :
          BaseProductUpdateView(u, pk, data)

SpecImage == Init /\ [][NextImage]_vars

(***************************************************************************)
(* Every request of the three groups.                                      *)
(***************************************************************************)
Next == NextWrite \/ NextToggle \/ NextImage

Spec == Init /\ [][Next]_vars

(***************************************************************************)
(* The toggle endpoints as the claims see them: the table, the flag and    *)
(* the value the request sets.                                             *)
(***************************************************************************)
ActiveKinds == { "user", "brand", "category", "product", "variant" }

TableOf(kind) ==
    CASE kind = "user" -> users
      [] kind = "brand" -> brands
      [] kind = "category" -> categories
      [] kind = "product" -> products
      [] kind = "variant" -> variants

TableOfNext(kind) ==
    CASE kind = "user" -> users'
      [] kind = "brand" -> brands'
      [] kind = "category" -> categories'
      [] kind = "product" -> products'
      [] kind = "variant" -> variants'

ActiveFlag(kind, row) == IF kind = "user" THEN row.is_active ELSE row.active

\* The stored value of the flag a toggle request is about.
FlagBefore(kind, axis, pk) ==
    IF axis = "published" THEN variants[pk].is_publishied
    ELSE ActiveFlag(kind, TableOf(kind)[pk])

FlagAfter(kind, axis, pk) ==
    IF axis = "published" THEN variants'[pk].is_publishied
    ELSE ActiveFlag(kind, TableOfNext(kind)[pk])

\* kind, axis, operation name, value set.
ToggleEndpoints ==
    { <<k, "active", "activate", TRUE>> : k \in ActiveKinds }
    \cup { <<k, "active", "deactivate", FALSE>> : k \in ActiveKinds }
    \cup { <<"variant", "published", "publish", TRUE>>,
           <<"variant", "published", "unpublish", FALSE>> }

Opposite(op) ==
    CASE op = "activate" -> "deactivate"
      [] op = "deactivate" -> "activate"
      [] op = "publish" -> "unpublish"
      [] op = "unpublish" -> "publish"

\* The step is the handling of a request to endpoint e on an existing row.
ToggleRequest(e) ==
    /\ resp'.op = e[1] \o "_" \o e[3]
    /\ resp'.pk \in DOMAIN TableOf(e[1])

(***************************************************************************)
(* C2: a toggle request that would set the flag to the value it already    *)
(* has is answered with the conflict response (400, "already ...") and     *)
(* leaves the whole store unchanged, on every toggle endpoint including    *)
(* publish and unpublish.                                                  *)
(***************************************************************************)
C2_ConflictRejected ==
    [][ \A e \in ToggleEndpoints :
          (ToggleRequest(e) /\ FlagBefore(e[1], e[2], resp'.pk) = e[4])
             => /\ resp'.status = HTTP_400_BAD_REQUEST
                /\ resp'.errors = {"already"}
                /\ UNCHANGED store ]_vars

(***************************************************************************)
(* C3: a successful activate (publish) happens only from the inactive      *)
(* (unpublished) state and leaves the flag set, a successful deactivate    *)
(* (unpublish) only from the set flag and leaves it cleared; the           *)
(* successful toggles of one entity alternate, and since an entity is      *)
(* created with the flag set the first of them is the deactivate.          *)
(***************************************************************************)
C3_TogglesAlternate ==
    [][ \A e \in ToggleEndpoints :
          (ToggleRequest(e) /\ resp'.status = HTTP_200_OK)
             => /\ FlagBefore(e[1], e[2], resp'.pk) = ~e[4]
                /\ FlagAfter(e[1], e[2], resp'.pk) = e[4]
                /\ LastOkOp(e[1], resp'.pk, e[2]) # e[3]
                /\ e[4] => LastOkOp(e[1], resp'.pk, e[2]) = Opposite(e[3])
                /\ [kind |-> e[1], pk |-> resp'.pk, axis |-> e[2], op |-> e[3]]
                      \in lastOk' ]_vars

\* A product was deactivated and then activated again, both with success.
C3_Witness ==
    /\ resp.op = "product_activate"
    /\ resp.status = HTTP_200_OK
    /\ products[resp.pk].active
    /\ LastOkOp("product", resp.pk, "active") = "activate"

(***************************************************************************)
(* C4: on a variant, activate and deactivate leave is_published alone,     *)
(* publish and unpublish leave active alone, and the publish axis moves:   *)
(* an unpublish of a published variant leaves it unpublished and a         *)
(* publish of an unpublished one leaves it published, so that all four     *)
(* combinations of the two flags occur.                                    *)
(***************************************************************************)
C4_IndependentAxes ==
    [][ /\ \A pk \in DOMAIN variants :
             /\ resp'.op \in {"variant_activate", "variant_deactivate"}
                   => variants'[pk].is_publishied = variants[pk].is_publishied
             /\ resp'.op \in {"variant_publish", "variant_unpublish"}
                   => variants'[pk].active = variants[pk].active
        /\ \A e \in { x \in ToggleEndpoints : x[2] = "published" } :
             (ToggleRequest(e) /\ FlagBefore(e[1], e[2], resp'.pk) = ~e[4])
                => FlagAfter(e[1], e[2], resp'.pk) = e[4] ]_vars

(***************************************************************************)
(* Vocabulary of the claims about product and variant writes.              *)
(***************************************************************************)
Success == { HTTP_200_OK, HTTP_201_CREATED }

ProductWriteOps == { "product_create", "product_update" }

VariantWriteOps == { "variant_create", "variant_update" }

\* A category list as the documentation accepts it: not empty, and every id
\* names an existing active category.
CategoriesAllActive(list) ==
    /\ list # <<>>
    /\ \A c \in Range(list) : c \in DOMAIN categories /\ categories[c].active

(***************************************************************************)
(* C5: every stored variant has price > 0; a variant create or update with *)
(* price <= 0 is rejected with the store unchanged, and a create with      *)
(* price 1 (and an active base product) is accepted and stores the         *)
(* variant with price 1.                                                   *)
(***************************************************************************)
C5_PositivePrice ==
    [][ /\ \A i \in DOMAIN variants' : variants'[i].price > 0
        /\ resp'.op = "variant_create" =>
             \A u \in {resp'.caller}, data \in ProductVariantCreateInputs :
                ProductVariantCreateView(u, data) =>
                   /\ data.price <= 0 =>
                         /\ resp'.status \notin Success
                         /\ UNCHANGED store
                   /\ ( /\ data.price = 1
                        /\ data.base_product \in DOMAIN products
                        /\ products[data.base_product].active ) =>
                         /\ resp'.status = HTTP_201_CREATED
                         /\ variants'[Len(variants')].price = 1
        /\ resp'.op = "variant_update" =>
             \A u \in {resp'.caller}, pk \in DOMAIN variants \cap {resp'.pk}, data \in ProductVariantUpdateInputs :
                ( /\ ProductVariantUpdateView(u, pk, data)
                  /\ data.price # Absent
                  /\ Val(data.price) <= 0 ) =>
                   /\ resp'.status \notin Success
                   /\ UNCHANGED store ]_vars

(***************************************************************************)
(* C6: the specs of every stored product is a JSON object; a product       *)
(* create or update whose specs is not an object is rejected with a        *)
(* validation error on specs and the store, the stored specs included, is  *)
(* unchanged.                                                              *)
(***************************************************************************)
C6_SpecsIsObject ==
    [][ /\ \A i \in DOMAIN products' : products'[i].specs.type = "object"
        /\ resp'.op = "product_create" =>
             \A u \in {resp'.caller}, data \in WriteCreateInputs :
                (BaseProductCreateView(u, data) /\ data.specs.type # "object") =>
                   /\ resp'.status = HTTP_400_BAD_REQUEST
                   /\ "specs" \in resp'.errors
                   /\ UNCHANGED store
        /\ resp'.op = "product_update" =>
             \A u \in {resp'.caller}, pk \in DOMAIN products \cap {resp'.pk}, data \in WriteUpdateInputs :
                ( /\ BaseProductUpdateView(u, pk, data)
                  /\ data.specs # Absent
                  /\ Val(data.specs).type # "object" ) =>
                   /\ resp'.status = HTTP_400_BAD_REQUEST
                   /\ "specs" \in resp'.errors
                   /\ UNCHANGED store ]_vars

\* An update of a stored product was rejected for its specs.
C6_Witness ==
    /\ resp.op = "product_update"
    /\ resp.status = HTTP_400_BAD_REQUEST
    /\ resp.errors = {"specs"}
    /\ resp.pk \in DOMAIN products
    /\ products[resp.pk].specs = SpecsObject

(***************************************************************************)
(* C7: a product create is accepted with respect to its categories         *)
(* exactly when the list is not empty and every id in it names an existing *)
(* active category, a list naming the same active category twice           *)
(* included; otherwise it is rejected and no product is created.           *)
(***************************************************************************)
C7_CategoriesAccepted ==
    [][ resp'.op = "product_create" =>
          \A u \in {resp'.caller}, data \in WriteCreateInputs :
             BaseProductCreateView(u, data) =>
                /\ ("categories" \notin resp'.errors) <=> CategoriesAllActive(data.categories)
                /\ ~CategoriesAllActive(data.categories) =>
                      /\ resp'.status = HTTP_400_BAD_REQUEST
                      /\ UNCHANGED store ]_vars

(***************************************************************************)
(* C8: a categories list supplied on update passes exactly when it would   *)
(* pass the check made on create, an update without categories leaves the  *)
(* product's categories as they are, and so every stored product always    *)
(* has at least one category.                                              *)
(***************************************************************************)
C8_UpdateKeepsCategory ==
    [][ /\ \A i \in DOMAIN products' : products'[i].categories # {}
        /\ resp'.op = "product_update" =>
             \A u \in {resp'.caller}, pk \in DOMAIN products \cap {resp'.pk}, data \in WriteUpdateInputs :
                BaseProductUpdateView(u, pk, data) =>
                   /\ data.categories # Absent =>
                         (("categories" \in resp'.errors)
                             <=> ~BaseProductCreate_validate_categories(Val(data.categories)))
                   /\ data.categories = Absent =>
                         products'[pk].categories = products[pk].categories ]_vars

(***************************************************************************)
(* C9: after a successful product create or update the product's brand is  *)
(* active, and after a successful variant create or update the variant's   *)
(* base product is active, whether or not the request supplied the field.  *)
(***************************************************************************)
C9_ActiveReferences ==
    [][ /\ (resp'.op \in ProductWriteOps /\ resp'.status \in Success) =>
             LET b == products'[resp'.pk].brand
             IN  b \in DOMAIN brands' /\ brands'[b].active
        /\ (resp'.op \in VariantWriteOps /\ resp'.status \in Success) =>
             LET p == variants'[resp'.pk].base_product
             IN  p \in DOMAIN products' /\ products'[p].active ]_vars

(***************************************************************************)
(* C10: after a successful product or variant create or update the row's   *)
(* user_last_modified is the caller of the request; a write that is not    *)
(* successful leaves every row's user_last_modified as it was.             *)
(***************************************************************************)
C10_UserLastModified ==
    [][ /\ resp'.op = "product_create" =>
             \A u \in {resp'.caller}, data \in WriteCreateInputs :
                (BaseProductCreateView(u, data) /\ resp'.status \in Success) =>
                   products'[Len(products')].user_last_modified = u
        /\ resp'.op = "product_update" =>
             \A u \in {resp'.caller}, pk \in DOMAIN products \cap {resp'.pk}, data \in WriteUpdateInputs :
                (BaseProductUpdateView(u, pk, data) /\ resp'.status \in Success) =>
                   products'[pk].user_last_modified = u
        /\ resp'.op = "variant_create" =>
             \A u \in {resp'.caller}, data \in ProductVariantCreateInputs :
                (ProductVariantCreateView(u, data) /\ resp'.status \in Success) =>
                   variants'[Len(variants')].user_last_modified = u
        /\ resp'.op = "variant_update" =>
             \A u \in {resp'.caller}, pk \in DOMAIN variants \cap {resp'.pk}, data \in ProductVariantUpdateInputs :
                (ProductVariantUpdateView(u, pk, data) /\ resp'.status \in Success) =>
                   variants'[pk].user_last_modified = u
        /\ ( /\ resp'.op \in ProductWriteOps \cup VariantWriteOps
             /\ resp'.status \notin Success ) =>
                /\ DOMAIN products' = DOMAIN products
                /\ DOMAIN variants' = DOMAIN variants
                /\ \A i \in DOMAIN products :
                      products'[i].user_last_modified = products[i].user_last_modified
                /\ \A i \in DOMAIN variants :
                      variants'[i].user_last_modified = variants[i].user_last_modified ]_vars

\* The second user updated a product: the row carries that user.
C10_Witness ==
    /\ resp.op = "product_update"
    /\ resp.status = HTTP_200_OK
    /\ resp.caller = 2
    /\ products[resp.pk].user_last_modified = 2

(***************************************************************************)
(* C1: a product update that names images of the product in remove_images  *)
(* and uploads a new image succeeds with the named images gone and the new *)
(* image attached to the product; an update that does not succeed leaves   *)
(* the store as it was, so removal and addition happen together or not at  *)
(* all.                                                                    *)
(***************************************************************************)
C1_RemoveAndAddAtomic ==
    [][ resp'.op = "product_update" =>
          /\ resp'.status # HTTP_200_OK => UNCHANGED store
          /\ \A u \in {resp'.caller}, pk \in DOMAIN products \cap {resp'.pk},
                data \in ImageUpdateInputs :
                ( /\ BaseProductUpdateView(u, pk, data)
                  /\ ImagesData(data.slots) # <<>>
                  /\ data.remove_images # <<>>
                  /\ \A r \in Range(data.remove_images) :
                        \E img \in images : img.id = r /\ img.product_variant = pk ) =>
                   /\ resp'.status = HTTP_200_OK
                   /\ \A img \in images' : img.id \notin Range(data.remove_images)
                   /\ \E img \in images' \ images : img.product_variant = pk ]_vars

(***************************************************************************)
(* Slugs: brands, categories and products created under names that         *)
(* slugify keeps and names it strips to nothing, then saved again through  *)
(* updates and deactivations.                                              *)
(***************************************************************************)
StrippedBrandName == <<"+">>

StrippedModelName == <<"#">>

SlugBrandNameInputs == BrandNameInputs \cup { StrippedBrandName }

SlugModelNameInputs == { ModelA, StrippedModelName }

SlugCreateInputs ==
    { ValidCreate(m, b) : m \in SlugModelNameInputs, b \in BrandRefInputs }

SlugUpdateInputs ==
    { NoChange } \cup { [NoChange EXCEPT !.brand = Some(b)] : b \in BrandRefInputs }

NextSlug ==
    \/ \E u \in Callers, name \in SlugBrandNameInputs : BrandCreateView(u, name)
    \/ \E u \in Callers, pk \in 1..MaxBrands : BrandDeactivateView(u, pk)
    \/ \E u \in Callers, name \in CategoryNameInputs : CategoryCreateView(u, name)
    \/ \E u \in Callers, pk \in 1..MaxCategories : CategoryDeactivateView(u, pk)
    \/ \E u \in Callers, data \in SlugCreateInputs : BaseProductCreateView(u, data)
    \/ \E u \in Callers, pk \in 1..MaxProducts, data \in SlugUpdateInputs :
          BaseProductUpdateView(u, pk, data)
    \/ \E u \in Callers, pk \in 1..MaxProducts : BaseProductDeactivateView(u, pk)

SpecSlug == Init /\ [][NextSlug]_vars

\* The text BaseProduct.save slugifies for product row p.
BrandAndModel(p) == brands[p.brand].name \o <<"-">> \o p.model_name

(***************************************************************************)
(* C11: the slug of every stored product is non-empty, and the slug a      *)
(* create request stores is the slugification of the brand name, a hyphen  *)
(* and the model name, also for names made only of characters that         *)
(* slugification strips.                                                   *)
(***************************************************************************)
C11_SlugNonEmpty ==
    [][ /\ \A i \in DOMAIN products' : products'[i].slug # <<>>
        /\ (resp'.op = "product_create" /\ resp'.status = HTTP_201_CREATED) =>
              products'[resp'.pk].slug = slugify(BrandAndModel(products'[resp'.pk])) ]_vars

(***************************************************************************)
(* C12: a request that saves a brand, a category or a product again        *)
(* without changing its name (a toggle, an update of other fields) leaves  *)
(* the slug the row already has as it is.                                  *)
(***************************************************************************)
C12_SlugKept ==
    [][ /\ \A i \in DOMAIN brands :
             brands'[i].name = brands[i].name => brands'[i].slug = brands[i].slug
        /\ \A i \in DOMAIN categories :
             categories'[i].name = categories[i].name
                => categories'[i].slug = categories[i].slug
        /\ \A i \in DOMAIN products :
             (products'[i].model_name = products[i].model_name /\ products[i].slug # <<>>)
                => products'[i].slug = products[i].slug ]_vars

\* A product was moved to another brand by an update and kept the slug it
\* was created with.
C12_Witness ==
    /\ resp.op = "product_update"
    /\ resp.status = HTTP_200_OK
    /\ products[resp.pk].slug # <<>>
    /\ products[resp.pk].slug # slugify(BrandAndModel(products[resp.pk]))

(***************************************************************************)
(* products/filters.py and the list views: the lookups of the ORM on text  *)
(* and on the JSON column, the declared filters, search and ordering.      *)
(***************************************************************************)
MaxListed == 2

LowerAll(text) == [i \in DOMAIN text |-> Lower(text[i])]

\* The contains lookup: needle occurs in text, letter for letter.
contains(text, needle) ==
    \E i \in 0..(Len(text) - Len(needle)) : SubSeq(text, i + 1, i + Len(needle)) = needle

\* The icontains lookup: needle occurs in text, letter case ignored.
icontains(text, needle) ==
    \E i \in 0..(Len(text) - Len(needle)) :
        SubSeq(LowerAll(text), i + 1, i + Len(needle)) = LowerAll(needle)

\* specs__key1__key2: the value at a key path of the JSON column; a path that
\* leaves the objects gives NULL.
RECURSIVE KeyTransform(_, _)
KeyTransform(value, path) ==
    IF path = <<>> THEN value
    ELSE IF value.type = "object" /\ Head(path) \in DOMAIN value.v
    THEN KeyTransform(value.v[Head(path)], Tail(path))
    ELSE JNull

\* icontains on the text at a key path: NULL matches nothing.
KeyTransformIContains(value, path, needle) ==
    LET leaf == KeyTransform(value, path)
    IN  leaf.type = "string" /\ icontains(leaf.v, needle)

\* The filters BaseProductFilter declares, by query parameter.
BaseProductFilterNames ==
    { "model_name", "slug", "brand", "brand__name", "categories", "active",
      "spec_processor_model", "spec_screen_size", "spec_weight" }

\* The queryset.filter() one declared filter applies, on product row p.
BaseProductFilter_filter(p, name, value) ==
    CASE name = "model_name" -> icontains(p.model_name, value)
      [] name = "slug" -> p.slug = value
      [] name = "brand" -> p.brand = value
      [] name = "brand__name" -> icontains(brands[p.brand].name, value)
      [] name = "categories" -> value \in p.categories
      [] name = "active" -> p.active = value
      [] name = "spec_processor_model" ->
            KeyTransformIContains(p.specs, <<"processor", "model">>, value)
      [] name = "spec_screen_size" ->
            KeyTransformIContains(p.specs, <<"screen", "size">>, value)
      [] name = "spec_weight" -> KeyTransformIContains(p.specs, <<"weight">>, value)

\* A filterset that keeps the rows one of the supplied filters matches.
BaseProductFilter_qs_Any(qs, params) ==
    { pk \in qs : \E name \in DOMAIN params \cap BaseProductFilterNames :
                      BaseProductFilter_filter(products[pk], name, params[name]) }

\* DjangoFilterBackend with BaseProductFilter: every declared filter whose
\* parameter the request supplies narrows the queryset; other parameters
\* are not looked at.
BaseProductFilter_qs(qs, params) ==
    { pk \in qs : \A name \in DOMAIN params \cap BaseProductFilterNames :
                      BaseProductFilter_filter(products[pk], name, params[name]) }

\* SearchFilter with search_fields = ['model_name', 'long_description']:
\* every term of ?search= occurs in one of the fields.
BaseProductSearchFilter(qs, params) ==
    IF "search" \notin DOMAIN params THEN qs
    ELSE { pk \in qs : \A t \in Range(params.search) :
                          \/ icontains(products[pk].model_name, t)
                          \/ icontains(products[pk].long_description, t) }

\* ordering = ['-creation_date']: rows are created in primary-key order.
RECURSIVE OrderByCreationDesc(_)
OrderByCreationDesc(qs) ==
    IF qs = {} THEN <<>>
    ELSE LET last == CHOOSE x \in qs : \A y \in qs : y <= x
         IN  <<last>> \o OrderByCreationDesc(qs \ {last})

\* The response of a list view: the serialized rows, by primary key.
ListResponse(op, caller, params, results) ==
    [op |-> op, pk |-> 0, caller |-> caller, status |-> HTTP_200_OK,
     errors |-> {}, params |-> params, results |-> results]

\* filter_queryset of BaseProductListView: the filter backends in turn.
BaseProductList_queryset(params) ==
    OrderByCreationDesc(
        BaseProductSearchFilter(BaseProductFilter_qs(DOMAIN products, params), params))

\* A list request that ends in an exception no handler catches.
ListError(op, caller, params, exception) ==
    [op |-> op, pk |-> 0, caller |-> caller, status |-> 500,
     errors |-> {exception}, params |-> params, results |-> <<>>]

\* BaseProductListView (ListAPIView.list): the rows are serialized only when
\* there are any.
BaseProductListView(u, params) ==
    /\ IsAuthenticated(u)
    /\ LET rows == BaseProductList_queryset(params)
       IN  resp' = IF rows # <<>> /\ ~SerializerConfigured(BaseProductSerializerFields,
                                                         {}, BaseProductFields)
                   THEN ListError("product_list", u, params, "ImproperlyConfigured")
                   ELSE ListResponse("product_list", u, params, rows)
    /\ UNCHANGED <<store, lastOk, inflight>>

(***************************************************************************)
(* Listing products: the catalogue is any table of up to MaxListed         *)
(* products that create and deactivate requests leave, and the requests    *)
(* are list requests over the parameter combinations below.                *)
(***************************************************************************)
ProcessorI5 == JObject([processor |-> JObject([model |-> JString(<<"I", "5">>)])])
ProcessorNoModel == JObject([processor |-> JObject([cores |-> JString(<<"8">>)])])
ProcessorText == JObject([processor |-> JString(<<"i", "5">>)])

\* Description, specs and active flag of a listed product.
ListedRows ==
    { <<LongDescriptionA, ProcessorI5, TRUE>>, <<LongDescriptionB, ProcessorI5, TRUE>>,
      <<LongDescriptionA, ProcessorI5, FALSE>>, <<LongDescriptionA, ProcessorNoModel, TRUE>>,
      <<LongDescriptionB, ProcessorText, TRUE>>, <<LongDescriptionA, SpecsObject, TRUE>>,
      <<LongDescriptionB, SpecsObject, FALSE>> }

\* The model name of the i-th listed product: names are unique.
ListedModelName(i) ==
    (IF i % 2 = 1 THEN ModelA ELSE ModelB) \o [j \in 1..((i - 1) \div 2) |-> "s"]

\* The row a create request (and then perhaps a deactivation) leaves.
ListedProduct(i, description, specs, active) ==
    [BaseProduct_save(BaseProductCreate_row(
         [ValidCreate(ListedModelName(i), 1) EXCEPT !.long_description = description,
                                                     !.specs = specs], 1))
       EXCEPT !.categories = {1}, !.active = active]

ListedProducts(n) == [1..n -> ListedRows]

\* Query parameters: a parameter is absent or has one of its values.
Param(name, values) == { <<>> } \cup { (name :> v) : v \in values }

ProductListInputs ==
    { b @@ c @@ d @@ e @@ f :
        b \in Param("active", { TRUE }),
        c \in Param("spec_processor_model", { <<"i", "5">> }),
        d \in Param("search", { << <<"g", "f">>, <<"r", "g", "b">> >> }),
        e \in Param("spec_processor__model", { <<"i", "5">> }),
        f \in Param("spec_screen_size", { <<"1", "5">> }) }

InitProductList ==
    /\ users = << [email |-> AdminEmail, password |-> AdminPassword, is_active |-> TRUE,
                   is_staff |-> TRUE] >>
    /\ brands = << Brand_save([name |-> <<"M", "S", "I">>, slug |-> <<>>, active |-> TRUE]) >>
    /\ categories = << Category_save([name |-> <<"L", "a", "p">>, slug |-> <<>>,
                                      active |-> TRUE]) >>
    /\ \E n \in 0..MaxListed : \E rows \in ListedProducts(n) :
           products = [i \in 1..n |->
                          ListedProduct(i, rows[i][1], rows[i][2], rows[i][3])]
    /\ images = {}
    /\ imageSeq = 0
    /\ variants = <<>>
    /\ lastOk = {}
    /\ resp = Response("none", 0, 0, 0, {})
    /\ inflight = NoRequests

NextProductList ==
    \E u \in Callers, params \in ProductListInputs : BaseProductListView(u, params)

SpecProductList == InitProductList /\ [][NextProductList]_vars

\* Product p has, at processor.model of its specs, a text containing v.
HasProcessorModel(p, v) ==
    /\ p.specs.type = "object" /\ "processor" \in DOMAIN p.specs.v
    /\ p.specs.v.processor.type = "object" /\ "model" \in DOMAIN p.specs.v.processor.v
    /\ p.specs.v.processor.v.model.type = "string"
    /\ \E i \in 1..Len(p.specs.v.processor.v.model.v) :
         \E j \in i..Len(p.specs.v.processor.v.model.v) :
            LowerAll(SubSeq(p.specs.v.processor.v.model.v, i, j)) = LowerAll(v)

\* C13: a product list request with spec_processor_model=v alone returns
\* exactly the products whose specs hold, at processor.model, a text that
\* contains v whatever the letter case; a product without a processor
\* entry, or whose processor has no model, is not returned.
C13_ProcessorModelFilter ==
    (resp.op = "product_list" /\ "spec_processor_model" \in DOMAIN resp.params) =>
        /\ resp.status = HTTP_200_OK
        /\ Range(resp.results) \subseteq
              { pk \in DOMAIN products :
                   HasProcessorModel(products[pk], resp.params.spec_processor_model) }
        /\ DOMAIN resp.params = { "spec_processor_model" } =>
              Range(resp.results) =
                { pk \in DOMAIN products :
                     HasProcessorModel(products[pk], resp.params.spec_processor_model) }

C13_Witness ==
    /\ resp.op = "product_list" /\ DOMAIN resp.params = { "spec_processor_model" }
    /\ resp.params.spec_processor_model = <<"i", "5">>
    /\ resp.results = <<1>>
    /\ Len(products) = 2
    /\ products[1].specs = ProcessorI5
    /\ products[2].specs \in { ProcessorNoModel, SpecsObject, ProcessorText }

\* The products a list request with the single parameter name returns.
AloneResult(name, value) == Range(BaseProductList_queryset((name :> value)))

\* C15: a product list request with any set of filters (structured filters
\* and full-text search) returns the intersection of what each filter
\* returns alone, and a request without parameters returns every product,
\* active or not.
C15_FiltersIntersect ==
    resp.op = "product_list" =>
        /\ resp.status = HTTP_200_OK
        /\ Range(resp.results) =
              { pk \in DOMAIN products :
                   \A name \in DOMAIN resp.params : pk \in AloneResult(name, resp.params[name]) }
        /\ DOMAIN resp.params = {} => Range(resp.results) = DOMAIN products

C15_Witness ==
    /\ resp.op = "product_list" /\ DOMAIN resp.params = { "active", "spec_processor_model", "search" }
    /\ Len(products) = 2
    /\ AloneResult("active", resp.params.active) = { 2 }
    /\ AloneResult("spec_processor_model", resp.params.spec_processor_model) = { 1, 2 }
    /\ AloneResult("search", resp.params.search) = { 1 }
    /\ resp.results = <<>>

\* The query parameters of the list inputs that name a nested spec path no
\* filter declares, or a declared path no listed product has.
UnknownPathParams == { "spec_processor__model", "spec_screen_size" }

\* C16: a product list request that filters on an unknown nested spec path
\* is answered without error and with an empty result.
C16_UnknownPathEmpty ==
    (resp.op = "product_list" /\ DOMAIN resp.params \cap UnknownPathParams # {}) =>
        resp.status = HTTP_200_OK /\ resp.results = <<>>

(***************************************************************************)
(* Listing variants: ProductVariantFilter and ProductVariantListView.      *)
(***************************************************************************)
\* The model field each declared filter of ProductVariantFilter looks up.
ProductVariantFilterField(name) ==
    CASE name = "price_min" -> "price"
      [] name = "price_max" -> "price"
      [] name = "is_published" -> "is_published"
      [] name = "active" -> "active"

ProductVariantFilterNames == { "price_min", "price_max", "is_published", "active" }

\* The queryset.filter() one declared filter applies, on variant row v.
ProductVariantFilter_filter(v, name, value) ==
    CASE name = "price_min" -> v.price >= value
      [] name = "price_max" -> v.price <= value
      [] name = "active" -> v.active = value
      [] name = "is_published" -> FALSE

\* ProductVariantFilter (FilterSet.qs)
ProductVariantFilter_qs(qs, params) ==
    { pk \in qs : \A name \in DOMAIN params \cap ProductVariantFilterNames :
                      ProductVariantFilter_filter(variants[pk], name, params[name]) }

\* ordering = ['price']: the orders of qs in which prices never decrease;
\* rows of equal price come in either order.
OrderByPrice(qs) ==
    { rows \in [1..Cardinality(qs) -> qs] :
         /\ \A i, j \in DOMAIN rows : i # j => rows[i] # rows[j]
         /\ \A i, j \in DOMAIN rows :
               i < j => variants[rows[i]].price <= variants[rows[j]].price }

\* ProductVariantListView (ListAPIView.list): a supplied filter on a name
\* that is not a field of the model cannot be resolved; the rows are
\* serialized only when there are any.
ProductVariantListView(u, params) ==
    /\ IsAuthenticated(u)
    /\ LET supplied == DOMAIN params \cap ProductVariantFilterNames
           qs == ProductVariantFilter_qs(DOMAIN variants, params)
       IN  IF ~KwargsResolve({ ProductVariantFilterField(name) : name \in supplied },
                             ProductVariantFields)
           THEN resp' = ListError("variant_list", u, params, "FieldError")
           ELSE IF qs # {} /\ ~SerializerConfigured(ProductVariantSerializerFields,
                                                    ProductVariantSerializerDeclared,
                                                    ProductVariantFields)
           THEN resp' = ListError("variant_list", u, params, "ImproperlyConfigured")
           ELSE \E rows \in OrderByPrice(qs) :
                   resp' = ListResponse("variant_list", u, params, rows)
    /\ UNCHANGED <<store, lastOk, inflight>>

ListedPrices == 1..3

\* The row of a variant added in the admin site.
ListedVariant(price) ==
    [base_product |-> 1, price |-> price, condition |-> "nuevo",
     stock_status |-> "en_stock", is_publishied |-> TRUE, active |-> TRUE,
     user_last_modified |-> 0]

VariantListInputs ==
    { a @@ b @@ c :
        a \in Param("price_min", { 1, 2 }),
        b \in Param("price_max", { 2, 3 }),
        c \in Param("is_published", { TRUE }) }

InitVariantList ==
    /\ users = << [email |-> AdminEmail, password |-> AdminPassword, is_active |-> TRUE,
                   is_staff |-> TRUE] >>
    /\ brands = << Brand_save([name |-> <<"M", "S", "I">>, slug |-> <<>>, active |-> TRUE]) >>
    /\ categories = << Category_save([name |-> <<"L", "a", "p">>, slug |-> <<>>,
                                      active |-> TRUE]) >>
    /\ products = << ListedProduct(1, LongDescriptionA, SpecsObject, TRUE) >>
    /\ images = {}
    /\ imageSeq = 0
    /\ \E n \in 0..MaxListed : \E prices \in [1..n -> ListedPrices] :
           variants = [i \in 1..n |-> ListedVariant(prices[i])]
    /\ lastOk = {}
    /\ resp = Response("none", 0, 0, 0, {})
    /\ inflight = NoRequests

NextVariantList ==
    \E u \in Callers, params \in VariantListInputs : ProductVariantListView(u, params)

SpecVariantList == InitVariantList /\ [][NextVariantList]_vars

\* Variant v is within the price bounds the parameters give.
InPriceRange(v, params) ==
    /\ "price_min" \in DOMAIN params => v.price >= params.price_min
    /\ "price_max" \in DOMAIN params => v.price <= params.price_max

AuthenticationBackends == { "ModelBackend", "AllowAllUsersModelBackend" }

\* authenticate(username=email, password=password): the primary key of the
\* user the backend accepts, 0 for None.
authenticate(email, password, backend) ==
    LET accepted == { i \in DOMAIN users :
                        /\ users[i].email = email
                        /\ users[i].password = password
                        /\ (backend = "ModelBackend" => users[i].is_active) }
    IN  IF accepted = {} THEN 0 ELSE CHOOSE i \in accepted : TRUE

\* A validate that looks at the credentials only.
LoginSerializer_validate_AnyAccount(email, password, backend) ==
    LET matching == { i \in DOMAIN users :
                        users[i].email = email /\ users[i].password = password }
    IN  IF matching = {} THEN [user |-> 0, error |-> "invalid_credentials"]
        ELSE [user |-> CHOOSE i \in matching : TRUE, error |-> "none"]

\* LoginSerializer.validate
LoginSerializer_validate(email, password, backend) ==
    LET user == authenticate(email, password, backend)
    IN  IF user = 0 THEN [user |-> 0, error |-> "invalid_credentials"]
        ELSE IF ~users[user].is_active THEN [user |-> 0, error |-> "disabled"]
        ELSE [user |-> user, error |-> "none"]

\* The response of the token endpoints.
TokenResponse(op, pk, status, errors, tokens) ==
    [op |-> op, pk |-> pk, caller |-> 0, status |-> status, errors |-> errors,
     tokens |-> tokens]

\* LoginView.post (public endpoint)
LoginView(email, password) ==
    /\ \E backend \in AuthenticationBackends :
          LET v == LoginSerializer_validate(email, password, backend)
          IN  IF v.error # "none"
              THEN /\ resp' = TokenResponse("login", 0, HTTP_400_BAD_REQUEST, {v.error}, {})
                   /\ UNCHANGED lastOk
              ELSE /\ resp' = TokenResponse("login", v.user, HTTP_200_OK, {},
                                            {"access", "refresh"})
                   /\ lastOk' = RecordOk("user", v.user, "token", "login")
    /\ UNCHANGED <<store, inflight>>

\* TokenRefreshView (public endpoint): takes a refresh token that login
\* issued for user pk and answers with a new access token; whether the
\* user must still be active depends on the library's version.
TokenRefreshView(pk) ==
    /\ LastOkOp("user", pk, "token") = "login"
    /\ \E checksActive \in BOOLEAN :
          resp' = IF checksActive /\ ~users[pk].is_active
                  THEN TokenResponse("token_refresh", pk, 401, {"no_active_account"}, {})
                  ELSE TokenResponse("token_refresh", pk, HTTP_200_OK, {}, {"access"})
    /\ UNCHANGED <<store, lastOk, inflight>>

\* permission_classes of the views, by operation.
PublicOps == { "login", "user_create" }

ProtectedOps ==
    { "user_list", "user_update", "user_activate", "user_deactivate" }
    \cup { k \o "_" \o o : k \in { "brand", "category", "product", "variant" },
                          o \in { "list", "create", "update", "activate", "deactivate" } }
    \cup { "product_detail", "variant_detail", "variant_publish", "variant_unpublish" }

\* APIView.initial (check_permissions) for a caller whose request carries no
\* access token (caller 0) or one that names no active user: the handler is
\* not run.
PermissionDenied(u, op) ==
    /\ op \in ProtectedOps
    /\ ~IsAuthenticated(u)
    /\ resp' = Response(op, 0, u, 401, {"not_authenticated"})
    /\ UNCHANGED <<store, lastOk, inflight>>

LoginEmailInputs == EmailInputs \cup { AdminEmail }
LoginPasswordInputs == PasswordInputs \cup { AdminPassword }

NextAuth ==
    \/ \E email \in EmailInputs, password \in PasswordInputs : UserCreateView(email, password)
    \/ \E email \in LoginEmailInputs, password \in LoginPasswordInputs :
          LoginView(email, password)
    \/ \E pk \in 1..MaxUsers : TokenRefreshView(pk)
    \/ \E u \in Callers, pk \in 1..MaxUsers : UserActivateView(u, pk)
    \/ \E u \in Callers, pk \in 1..MaxUsers : UserDeactivateView(u, pk)
    \/ \E u \in Callers, name \in BrandNameInputs : BrandCreateView(u, name)
    \/ \E u \in Callers, pk \in 1..MaxBrands : BrandDeactivateView(u, pk)
    \/ \E u \in Callers, params \in { <<>> } : BaseProductListView(u, params)
    \/ \E u \in {0} \cup Callers, op \in ProtectedOps : PermissionDenied(u, op)

SpecAuth == Init /\ [][NextAuth]_vars

\* C17: a login is answered 200 with tokens only for the email and password
\* of a stored user who is active; while the user of the supplied email is
\* deactivated, every login for it is rejected and carries no tokens,
\* whatever the password.
C17_LoginOnlyActive ==
    [][ \A email \in LoginEmailInputs, password \in LoginPasswordInputs :
           LoginView(email, password) =>
              /\ (resp'.status = HTTP_200_OK \/ resp'.tokens # {}) =>
                    /\ resp'.pk \in DOMAIN users
                    /\ users[resp'.pk].email = email
                    /\ users[resp'.pk].password = password
                    /\ users[resp'.pk].is_active
              /\ (\A i \in DOMAIN users : users[i].email = email => ~users[i].is_active) =>
                    resp'.status # HTTP_200_OK /\ resp'.tokens = {} ]_vars

C17_Witness ==
    /\ resp.op = "login" /\ resp.errors = {"disabled"} /\ resp.tokens = {}
    /\ LastOkOp("user", 2, "token") = "login"
    /\ ~users[2].is_active

\* The caller of the request just answered held, when it was sent, an
\* access token naming an active user.
CallerHadToken == resp'.caller \in DOMAIN users /\ users[resp'.caller].is_active

\* C18 (as stated): a request to any endpoint other than login and
\* registration by a caller without a valid access token is rejected and
\* leaves the store unchanged.
C18_OnlyLoginAndRegisterPublic ==
    [][ (resp'.op \notin PublicOps /\ ~CallerHadToken) =>
           (resp'.status = 401 /\ UNCHANGED store) ]_vars

\* C18 (amended): a request to any endpoint other than login, registration
\* and token refresh by a caller without a valid access token is rejected
\* and leaves the store unchanged; a token refresh leaves the store
\* unchanged as well.
C18_ProtectedEndpoints ==
    [][ /\ (resp'.op \notin PublicOps \cup { "token_refresh" } /\ ~CallerHadToken) =>
              (resp'.status = 401 /\ UNCHANGED store)
        /\ resp'.op = "token_refresh" => UNCHANGED store ]_vars

C18_Witness ==
    /\ resp.op = "brand_create" /\ resp.status = 401
    /\ resp.caller \in DOMAIN users /\ ~users[resp.caller].is_active
    /\ brands = <<>>

(***************************************************************************)
(* The lifetime of records: the image requests together with the           *)
(* deactivation of every kind of record.                                   *)
(***************************************************************************)
NextRecords ==
    \/ \E email \in EmailInputs : UserCreateView(email, PasswordA)
    \/ \E u \in Callers, name \in BrandNameInputs : BrandCreateView(u, name)
    \/ \E u \in Callers, name \in CategoryNameInputs : CategoryCreateView(u, name)
    \/ \E u \in Callers : BaseProductCreateView(u, ValidCreate(ModelA, 1))
    \/ \E u \in Callers, pk \in 1..MaxProducts : AdminAddImage(u, pk, "front")
    \/ \E u \in Callers, pk \in 1..MaxProducts, data \in ImageUpdates :
          BaseProductUpdateView(u, pk, data)
    \/ \E u \in Callers, pk \in 1..MaxUsers : UserDeactivateView(u, pk)
    \/ \E u \in Callers, pk \in 1..MaxBrands : BrandDeactivateView(u, pk)
    \/ \E u \in Callers, pk \in 1..MaxCategories : CategoryDeactivateView(u, pk)
    \/ \E u \in Callers, pk \in 1..MaxProducts : BaseProductDeactivateView(u, pk)
    \/ \E u \in Callers, pk \in 1..MaxProducts : AdminAddVariant(u, pk, 1, "nuevo")
    \/ \E u \in Callers, pk \in 1..MaxVariants : ProductVariantDeactivateView(u, pk)

SpecRecords == Init /\ [][NextRecords]_vars

\* Row after is row before but for its active flag.
OnlyFlagDiffers(kind, before, after) ==
    IF kind = "user" THEN after = [before EXCEPT !.is_active = after.is_active]
    ELSE after = [before EXCEPT !.active = after.active]

BadBrand(b) == b \notin DOMAIN brands \/ ~brands[b].active

\* A category list with an id that does not exist or is inactive.
BadCategories(list) ==
    \E c \in Range(list) : c \notin DOMAIN categories \/ ~categories[c].active

\* A linked base product that does not exist or is inactive.
BadBaseProduct(p) == p \notin DOMAIN products \/ ~products[p].active

\* The defects of a product create payload and of a product update payload.
CreateDefect(data) ==
    data.specs.type # "object" \/ BadBrand(data.brand) \/ BadCategories(data.categories)

UpdateDefect(data) ==
    \/ data.specs # Absent /\ Val(data.specs).type # "object"
    \/ data.brand # Absent /\ BadBrand(Val(data.brand))
    \/ data.categories # Absent /\ BadCategories(Val(data.categories))

\* C20: a create or update answered with a validation error leaves the
\* whole store as it was, and a create or update whose payload has
\* non-object specs, a non-positive price, or a linked brand, category or
\* base product that does not exist or is inactive is not carried out: it
\* is rejected and the whole store, images and category links included, is
\* as it was.
C20_RejectedBeforeWrite ==
    [][ /\ (resp'.op \in ProductWriteOps \cup VariantWriteOps
                           \cup { "brand_create", "category_create", "user_create" }
            /\ resp'.status = HTTP_400_BAD_REQUEST) => UNCHANGED store
        /\ resp'.op = "product_create" =>
             \A u \in {resp'.caller}, data \in WriteCreateInputs :
                (BaseProductCreateView(u, data) /\ CreateDefect(data)) =>
                   (resp'.status = HTTP_400_BAD_REQUEST /\ UNCHANGED store)
        /\ resp'.op = "product_update" =>
             \A u \in {resp'.caller}, pk \in DOMAIN products \cap {resp'.pk},
                data \in WriteUpdateInputs :
                (BaseProductUpdateView(u, pk, data) /\ UpdateDefect(data)) =>
                   (resp'.status = HTTP_400_BAD_REQUEST /\ UNCHANGED store)
        /\ resp'.op = "variant_create" =>
             \A u \in {resp'.caller}, data \in ProductVariantCreateInputs :
                ( /\ ProductVariantCreateView(u, data)
                  /\ (data.price <= 0 \/ BadBaseProduct(data.base_product)) ) =>
                   (resp'.status \notin Success /\ UNCHANGED store)
        /\ resp'.op = "variant_update" =>
             \A u \in {resp'.caller}, pk \in DOMAIN variants \cap {resp'.pk},
                data \in ProductVariantUpdateInputs :
                ( /\ ProductVariantUpdateView(u, pk, data)
                  /\ \/ data.price # Absent /\ Val(data.price) <= 0
                     \/ data.base_product # Absent /\ BadBaseProduct(Val(data.base_product)) ) =>
                   (resp'.status \notin Success /\ UNCHANGED store) ]_vars

\* An update naming a brand that is stored but inactive was rejected.
C20_Witness ==
    /\ resp.op = "product_update" /\ resp.status = HTTP_400_BAD_REQUEST
    /\ resp.errors = {"brand"}
    /\ resp.pk \in DOMAIN products
    /\ \E b \in DOMAIN brands : ~brands[b].active

(***************************************************************************)
(* A product write statement by statement.  BaseProductCreateView.create   *)
(* and BaseProductUpdateView.update run under @transaction.atomic: the     *)
(* handler's statements act on the transaction's working copy of the       *)
(* tables, which the commit publishes and an exception discards.  The      *)
(* specification runs one write at a time, among readers.                  *)
(***************************************************************************)
\* The statements of BaseProductCreateSerializer.create, in order.
BaseProductCreate_statements(data, user) ==
    << [stmt |-> "insert", row |-> BaseProductCreate_row(data, user)],
       [stmt |-> "set_categories", categories |-> Range(data.categories)] >>
    \o [i \in 1..Len(ImagesData(data.slots)) |->
           [stmt |-> "create_image", image_data |-> ImagesData(data.slots)[i]]]

\* The statements of BaseProductUpdateSerializer.update, in order.
BaseProductUpdate_statements(data, user) ==
    (IF data.remove_images # <<>>
     THEN << [stmt |-> "delete_images", ids |-> data.remove_images] >> ELSE <<>>)
    \o << [stmt |-> "save", data |-> data, user |-> user] >>
    \o (IF data.categories # Absent
        THEN << [stmt |-> "set_categories", categories |-> Range(Val(data.categories))] >>
        ELSE <<>>)
    \o [i \in 1..Len(ImagesData(data.slots)) |->
           [stmt |-> "create_image", image_data |-> ImagesData(data.slots)[i]]]

\* One statement on the working copy tx, for the product with key pk.
Execute(tx, pk, s) ==
    CASE s.stmt = "insert" ->
           LET row == BaseProduct_save(s.row)
           IN  IF SlugTaken(tx.products, 0, row) THEN Raise(tx, "IntegrityError")
               ELSE Done([tx EXCEPT !.products = Append(@, row)])
      [] s.stmt = "save" ->
           LET row == BaseProduct_save(BaseProductUpdate_row(tx.products[pk], s.data, s.user))
           IN  IF SlugTaken(tx.products, pk, row) THEN Raise(tx, "IntegrityError")
               ELSE Done([tx EXCEPT !.products[pk] = row])
      [] s.stmt = "set_categories" ->
           Done([tx EXCEPT !.products[pk].categories = s.categories])
      [] s.stmt = "delete_images" -> RemoveImages(tx, pk, s.ids)
      [] s.stmt = "create_image" -> CreateImages(tx, pk, << s.image_data >>)

\* Every statement is its own transaction: other connections see the
\* working copy at once.
Visible_Autocommit(committed, working) == working

\* What other connections see of the tables while a transaction is open:
\* the committed tables, not its working copy.
Visible(committed, working) == committed

NoWriteInFlight == \A t \in Threads : inflight[t].pc = "idle"

\* The handler of a product write up to serializer.save(): permission,
\* get_object and is_valid; the transaction is then open.
ProductWriteBegin(t, u, op, pk, data) ==
    /\ NoWriteInFlight
    /\ IsAuthenticated(u)
    /\ IF op = "product_create" THEN Len(products) < MaxProducts /\ pk = Len(products) + 1
       ELSE pk \in DOMAIN products
    /\ (IF op = "product_create" THEN BaseProductCreate_errors(data)
        ELSE BaseProductUpdate_errors(data)) = {}
    /\ inflight' = [inflight EXCEPT ![t] =
                      [pc |-> "running", op |-> op, caller |-> u, pk |-> pk, data |-> data,
                       stmts |-> IF op = "product_create"
                                 THEN BaseProductCreate_statements(data, u)
                                 ELSE BaseProductUpdate_statements(data, u),
                       tx |-> Tx]]
    /\ UNCHANGED <<store, lastOk, resp>>

\* The next statement of the write of connection t.
ProductWriteStatement(t) ==
    /\ inflight[t].pc = "running"
    /\ inflight[t].stmts # <<>>
    /\ LET r == inflight[t]
           out == Execute(r.tx, r.pk, Head(r.stmts))
           seen == IF out.raised = "none" THEN Visible(Tx, out.tx) ELSE Tx
       IN  /\ products' = seen.products
           /\ images' = seen.images
           /\ imageSeq' = seen.imageSeq
           /\ IF out.raised = "none"
              THEN /\ inflight' = [inflight EXCEPT ![t].tx = out.tx, ![t].stmts = Tail(@)]
                   /\ UNCHANGED resp
              ELSE /\ inflight' = [inflight EXCEPT ![t] = Idle]
                   /\ resp' = ServerError(r.op, IF r.op = "product_create" THEN 0 ELSE r.pk,
                                          r.caller, out.raised)
    /\ UNCHANGED <<users, brands, categories, variants, lastOk>>

\* The end of the atomic block: the working copy is committed and the
\* response is returned.
ProductWriteCommit(t) ==
    /\ inflight[t].pc = "running"
    /\ inflight[t].stmts = <<>>
    /\ LET r == inflight[t]
       IN  /\ products' = r.tx.products
           /\ images' = r.tx.images
           /\ imageSeq' = r.tx.imageSeq
           /\ resp' = Response(r.op, r.pk, r.caller,
                               IF r.op = "product_create" THEN HTTP_201_CREATED
                               ELSE HTTP_200_OK, {})
    /\ inflight' = [inflight EXCEPT ![t] = Idle]
    /\ UNCHANGED <<users, brands, categories, variants, lastOk>>

ConcurrentCreateInputs ==
    { ValidCreate(ModelA, 1),
      [ValidCreate(ModelA, 1) EXCEPT !.slots[1] = [imagen |-> TRUE, alt_text |-> "front"]] }

ConcurrentUpdateInputs ==
    { [NoChange EXCEPT !.model_name = Some(ModelB)],
      [NoChange EXCEPT !.model_name = Some(ModelB), !.categories = Some(<<>>)],
      [NoChange EXCEPT !.remove_images = <<1>>,
                       !.slots[1] = [imagen |-> TRUE, alt_text |-> "side"]] }

NextConcurrentWrite ==
    \/ \E u \in Callers, name \in BrandNameInputs : NoWriteInFlight /\ BrandCreateView(u, name)
    \/ \E u \in Callers, name \in CategoryNameInputs :
          NoWriteInFlight /\ CategoryCreateView(u, name)
    \/ \E u \in Callers, pk \in 1..MaxProducts : NoWriteInFlight /\ AdminAddImage(u, pk, "front")
    \/ \E t \in Threads, u \in Callers, data \in ConcurrentCreateInputs :
          ProductWriteBegin(t, u, "product_create", Len(products) + 1, data)
    \/ \E t \in Threads, u \in Callers, pk \in 1..MaxProducts, data \in ConcurrentUpdateInputs :
          ProductWriteBegin(t, u, "product_update", pk, data)
    \/ \E t \in Threads : ProductWriteStatement(t)
    \/ \E t \in Threads : ProductWriteCommit(t)
    \/ \E u \in Callers : BaseProductListView(u, <<>>)

SpecConcurrentWrite == Init /\ [][NextConcurrentWrite]_vars

\* The tables after the whole write of request r, when nothing else wrote
\* in between: the serializer's create or update as one transaction.
WholeWrite(r) ==
    atomic(Tx, IF r.op = "product_create"
               THEN BaseProductCreate_create(Tx, r.data, r.caller)
               ELSE BaseProductUpdate_update(Tx, r.pk, r.data, r.caller))

C22_RemoveImagesScoped ==
    [][ resp'.op = "product_update" =>
          \A u \in {resp'.caller}, pk \in DOMAIN products \cap {resp'.pk},
                data \in ImageUpdateInputs :
             ( /\ BaseProductUpdateView(u, pk, data)
               /\ BaseProductUpdate_errors(data) = {}
               /\ data.remove_images # <<>>
               /\ ImagesData(data.slots) = <<>> ) =>
                /\ resp'.status = HTTP_200_OK
                /\ images' = { img \in images :
                                 ~(img.id \in Range(data.remove_images)
                                   /\ img.product_variant = pk) } ]_vars

(***************************************************************************)
(* C23: a product create with valid data and k image slots filled is       *)
(* answered 201 and leaves exactly k new images, all attached to the new   *)
(* product, each with the alternative text of its slot; a slot with        *)
(* alternative text and no image adds none; no request adds more than      *)
(* ImageSlots images.                                                      *)
(***************************************************************************)
C23_CreateAttachesImages ==
    [][ resp'.op = "product_create" =>
          /\ Cardinality(images' \ images) <= ImageSlots
          /\ \A u \in {resp'.caller}, data \in WriteCreateInputs :
                ( /\ BaseProductCreateView(u, data)
                  /\ BaseProductCreate_errors(data) = {}
                  /\ ~SlugTaken(products, 0, BaseProduct_save(BaseProductCreate_row(data, u))) ) =>
                   /\ resp'.status = HTTP_201_CREATED
                   /\ Cardinality(images' \ images) = Len(ImagesData(data.slots))
                   /\ \A img \in images' \ images :
                         /\ img.product_variant = Len(products')
                         /\ \E i \in 1..ImageSlots :
                               data.slots[i].imagen /\ img.alt_text = data.slots[i].alt_text ]_vars

(***************************************************************************)
(* users/serializers.py, users/views.py: the update of a user.             *)
(***************************************************************************)
\* UserUpdateSerializer.validate_email: the address as sent is looked up
\* among the other users.
UserUpdate_validate_email(pk, value) ==
    ~ \E i \in DOMAIN users : i # pk /\ users[i].email = value

\* UserUpdateSerializer.update: the address is stored as sent; a password
\* goes through set_password.
UserUpdate_update(instance, email, password) ==
    [instance EXCEPT !.email = IF email = Absent THEN @ ELSE Val(email),
                     !.password = IF password = Absent THEN @ ELSE Val(password)]

\* UserUpdateView.update
UserUpdateView(u, pk, email, password) ==
    /\ IsAuthenticated(u)
    /\ IF pk \notin DOMAIN users
       THEN /\ resp' = NotFound("user_update", pk, u)
            /\ UNCHANGED users
       ELSE IF email # Absent /\ ~UserUpdate_validate_email(pk, Val(email))
       THEN /\ resp' = ValidationError("user_update", pk, u, {"email"})
            /\ UNCHANGED users
       ELSE LET row == UserUpdate_update(users[pk], email, password)
            IN  IF UserEmailTaken(row.email, pk)
                THEN /\ resp' = ServerError("user_update", pk, u, "IntegrityError")
                     /\ UNCHANGED users
                ELSE /\ users' = [users EXCEPT ![pk] = row]
                     /\ resp' = IF SerializerConfigured(UserSerializerFields, {}, UserFields)
                                THEN Response("user_update", pk, u, HTTP_200_OK, {})
                                ELSE ServerError("user_update", pk, u, "ImproperlyConfigured")
    /\ UNCHANGED <<brands, categories, products, images, imageSeq, variants,
                   lastOk, inflight>>

UserUpdateEmailInputs == { Absent } \cup { Some(e) : e \in EmailInputs \cup { AdminEmail } }
UserUpdatePasswordInputs == { Absent, Some(PasswordB) }

NextUsers ==
    \/ \E email \in EmailInputs, password \in PasswordInputs : UserCreateView(email, password)
    \/ \E u \in Callers, pk \in 1..MaxUsers, email \in UserUpdateEmailInputs,
          password \in UserUpdatePasswordInputs : UserUpdateView(u, pk, email, password)
    \/ \E u \in Callers, pk \in 1..MaxUsers : UserActivateView(u, pk)
    \/ \E u \in Callers, pk \in 1..MaxUsers : UserDeactivateView(u, pk)

SpecUsers == Init /\ [][NextUsers]_vars

(***************************************************************************)
(* C24: after any sequence of registrations and user updates every stored  *)
(* email is in normalized form and no two users hold the same email.       *)
(***************************************************************************)
C24_EmailsNormalizedUnique ==
    /\ \A i \in DOMAIN users : users[i].email = normalize_email(users[i].email)
    /\ \A i, j \in DOMAIN users : i # j => users[i].email # users[j].email

(***************************************************************************)
(* Brand update, and the brand toggles statement by statement.  The        *)
(* toggle views read the row, test the flag, set it on the instance in     *)
(* memory and save the instance; nothing locks the row in between, and     *)
(* save() writes every column of the instance.                             *)
(***************************************************************************)
\* BrandUpdateSerializer.update
BrandUpdate_update(instance, name) ==
    Brand_save([instance EXCEPT !.name = IF name = Absent THEN @ ELSE Val(name)])

\* BrandUpdateView.update
BrandUpdateView(u, pk, name) ==
    /\ IsAuthenticated(u)
    /\ IF pk \notin DOMAIN brands
       THEN /\ resp' = NotFound("brand_update", pk, u)
            /\ UNCHANGED brands
       ELSE IF name # Absent /\ ~NameUnique(brands, pk, Val(name))
       THEN /\ resp' = ValidationError("brand_update", pk, u, {"name"})
            /\ UNCHANGED brands
       ELSE LET saved == BrandUpdate_update(brands[pk], name)
            IN  IF NameOrSlugTaken(brands, pk, saved)
                THEN /\ resp' = ServerError("brand_update", pk, u, "IntegrityError")
                     /\ UNCHANGED brands
                ELSE /\ brands' = [brands EXCEPT ![pk] = saved]
                     /\ resp' = IF SerializerConfigured(BrandSerializerFields, {}, BrandFields)
                                THEN Response("brand_update", pk, u, HTTP_200_OK, {})
                                ELSE ServerError("brand_update", pk, u, "ImproperlyConfigured")
    /\ UNCHANGED <<users, categories, products, images, imageSeq, variants,
                   lastOk, inflight>>

\* The requests in flight that toggle the same brand the same way as r.
SameToggle(r, other) ==
    /\ other.pc = "loaded"
    /\ other.pk = r.pk
    /\ other.target = r.target

\* BrandActivateView.post / BrandDeactivateView.post up to the test of the
\* flag: get_object_or_404 and the early return.
BrandToggleRead(t, u, pk, target) ==
    /\ inflight[t].pc = "idle"
    /\ IsAuthenticated(u)
    /\ IF pk \notin DOMAIN brands
       THEN /\ resp' = NotFound("brand_" \o ToggleOp(target), pk, u)
            /\ UNCHANGED inflight
       ELSE IF brands[pk].active = target
       THEN /\ resp' = Response("brand_" \o ToggleOp(target), pk, u,
                                HTTP_400_BAD_REQUEST, {"already"})
            /\ UNCHANGED inflight
       ELSE /\ inflight' = [inflight EXCEPT ![t] =
                              [pc |-> "loaded", caller |-> u, pk |-> pk, target |-> target,
                               instance |-> brands[pk], peer_ok |-> FALSE]]
            /\ UNCHANGED resp
    /\ UNCHANGED <<store, lastOk>>

\* The rest of the post(): brand.active = target; brand.save(); response.
\* peer_ok records, in the requests still in flight, that a request for
\* the same toggle of the same brand was answered 200 meanwhile (history).
BrandToggleSave(t) ==
    /\ inflight[t].pc = "loaded"
    /\ LET r == inflight[t]
           saved == Brand_save([r.instance EXCEPT !.active = r.target])
           status == IF NameOrSlugTaken(brands, r.pk, saved) THEN 500
                     ELSE IF ~SerializerConfigured(BrandSerializerFields, {}, BrandFields)
                     THEN 500 ELSE HTTP_200_OK
       IN  /\ brands' = IF NameOrSlugTaken(brands, r.pk, saved) THEN brands
                        ELSE [brands EXCEPT ![r.pk] = saved]
           /\ resp' = Response("brand_" \o ToggleOp(r.target), r.pk, r.caller, status,
                               IF status = HTTP_200_OK THEN {}
                               ELSE IF NameOrSlugTaken(brands, r.pk, saved)
                               THEN {"IntegrityError"} ELSE {"ImproperlyConfigured"})
           /\ lastOk' = ToggleLastOk("brand", r.pk, "active", ToggleOp(r.target), status)
           /\ inflight' = [o \in Threads |->
                             IF o = t THEN Idle
                             ELSE IF status = HTTP_200_OK /\ SameToggle(r, inflight[o])
                             THEN [inflight[o] EXCEPT !.peer_ok = TRUE]
                             ELSE inflight[o]]
    /\ UNCHANGED <<users, categories, products, images, imageSeq, variants>>

BrandRenameInputs == { Absent, Some(<<"A", "c", "e", "r">>), Some(<<"M", "S", "I">>) }

NextConcurrentToggle ==
    \/ \E u \in Callers, name \in BrandNameInputs : BrandCreateView(u, name)
    \/ \E u \in Callers, pk \in 1..MaxBrands, name \in BrandRenameInputs :
          BrandUpdateView(u, pk, name)
    \/ \E t \in Threads, u \in Callers, pk \in 1..MaxBrands, target \in BOOLEAN :
          BrandToggleRead(t, u, pk, target)
    \/ \E t \in Threads : BrandToggleSave(t)

SpecConcurrentToggle == Init /\ [][NextConcurrentToggle]_vars

(***************************************************************************)
(* C25: of two activate requests (or two deactivate requests) for the same *)
(* brand that are in progress at the same time, at most one is answered    *)
(* 200: a request is not answered 200 when a concurrent request for the    *)
(* same toggle was.                                                        *)
(***************************************************************************)
C25_OneConcurrentToggleSucceeds ==
    [][ \A t \in Threads :
          ( /\ inflight[t].pc = "loaded"
            /\ inflight'[t].pc = "idle"
            /\ resp'.status = HTTP_200_OK )
          => ~inflight[t].peer_ok ]_vars

(***************************************************************************)
(* C26: a toggle that read the brand before a committed update does not    *)
(* revert the update: its save leaves the stored name and slug as they     *)
(* are.                                                                    *)
(***************************************************************************)
C26_ToggleKeepsUpdate ==
    [][ \A t \in Threads :
          ( /\ inflight[t].pc = "loaded"
            /\ inflight'[t].pc = "idle"
            /\ resp'.status = HTTP_200_OK )
          => /\ brands'[inflight[t].pk].name = brands[inflight[t].pk].name
             /\ brands'[inflight[t].pk].slug = brands[inflight[t].pk].slug
             /\ brands'[inflight[t].pk].active = inflight[t].target ]_vars

(***************************************************************************)
(* Category update, and the requests that rename.                          *)
(***************************************************************************)
\* CategoryUpdateSerializer.update (the description is not part of the rows)
CategoryUpdate_update(instance, name) ==
    Category_save([instance EXCEPT !.name = IF name = Absent THEN @ ELSE Val(name)])

\* CategoryUpdateView.update
CategoryUpdateView(u, pk, name) ==
    /\ IsAuthenticated(u)
    /\ IF pk \notin DOMAIN categories
       THEN /\ resp' = NotFound("category_update", pk, u)
            /\ UNCHANGED categories
       ELSE IF name # Absent /\ ~NameUnique(categories, pk, Val(name))
       THEN /\ resp' = ValidationError("category_update", pk, u, {"name"})
            /\ UNCHANGED categories
       ELSE LET saved == CategoryUpdate_update(categories[pk], name)
            IN  IF NameOrSlugTaken(categories, pk, saved)
                THEN /\ resp' = ServerError("category_update", pk, u, "IntegrityError")
                     /\ UNCHANGED categories
                ELSE /\ categories' = [categories EXCEPT ![pk] = saved]
                     /\ resp' = IF SerializerConfigured(CategorySerializerFields, {},
                                                        CategoryFields)
                                THEN Response("category_update", pk, u, HTTP_200_OK, {})
                                ELSE ServerError("category_update", pk, u,
                                                 "ImproperlyConfigured")
    /\ UNCHANGED <<users, brands, products, images, imageSeq, variants,
                   lastOk, inflight>>

CategoryRenameInputs == { Absent, Some(<<"P", "C">>) }

RenameUpdateInputs == { [NoChange EXCEPT !.model_name = Some(ModelB)],
                        [NoChange EXCEPT !.model_name = Some(ModelB), !.brand = Some(2)] }

NextRename ==
    \/ \E u \in Callers, name \in SlugBrandNameInputs : BrandCreateView(u, name)
    \/ \E u \in Callers, pk \in 1..MaxBrands : BrandUpdateView(u, pk, Some(<<"A", "c", "e", "r">>))
    \/ \E u \in Callers, pk \in 1..MaxBrands : BrandDeactivateView(u, pk)
    \/ \E u \in Callers, name \in CategoryNameInputs : CategoryCreateView(u, name)
    \/ \E u \in Callers, pk \in 1..MaxCategories, name \in CategoryRenameInputs :
          CategoryUpdateView(u, pk, name)
    \/ \E u \in Callers : BaseProductCreateView(u, ValidCreate(ModelA, 1))
    \/ \E u \in Callers, pk \in 1..MaxProducts, data \in RenameUpdateInputs :
          BaseProductUpdateView(u, pk, data)
    \/ \E u \in Callers, pk \in 1..MaxProducts : BaseProductDeactivateView(u, pk)

SpecRename == Init /\ [][NextRename]_vars

(***************************************************************************)
(* C27: once a brand, category or product has a slug, no request changes   *)
(* it: not a rename, not a change of the product's model name or brand,    *)
(* not a toggle.                                                           *)
(***************************************************************************)
C27_SlugNeverChanges ==
    [][ /\ \A i \in DOMAIN brands :
             brands[i].slug # <<>> => brands'[i].slug = brands[i].slug
        /\ \A i \in DOMAIN categories :
             categories[i].slug # <<>> => categories'[i].slug = categories[i].slug
        /\ \A i \in DOMAIN products :
             products[i].slug # <<>> => products'[i].slug = products[i].slug ]_vars

\* A brand was renamed and holds the slug of its first name.
C27_Witness ==
    /\ resp.op = "brand_update"
    /\ resp.status = HTTP_200_OK
    /\ brands[resp.pk].slug # <<>>
    /\ brands[resp.pk].slug # slugify(brands[resp.pk].name)

(***************************************************************************)
(* The toggles of products and variants, after creates and renames.        *)
(***************************************************************************)
NextFlag ==
    \/ \E u \in Callers, name \in SlugBrandNameInputs : BrandCreateView(u, name)
    \/ \E u \in Callers, pk \in 1..MaxBrands : BrandUpdateView(u, pk, Some(<<"A", "c", "e", "r">>))
    \/ \E u \in Callers, pk \in 1..MaxBrands : BrandDeactivateView(u, pk)
    \/ \E u \in Callers, name \in CategoryNameInputs : CategoryCreateView(u, name)
    \/ \E u \in Callers, pk \in 1..MaxCategories : CategoryDeactivateView(u, pk)
    \/ \E u \in Callers, m \in SlugModelNameInputs :
          BaseProductCreateView(u, ValidCreate(m, 1))
    \/ \E u \in Callers, pk \in 1..MaxProducts : BaseProductActivateView(u, pk)
    \/ \E u \in Callers, pk \in 1..MaxProducts : BaseProductDeactivateView(u, pk)
    \/ \E u \in Callers, pk \in 1..MaxProducts : AdminAddVariant(u, pk, 1, "nuevo")
    \/ \E u \in Callers, pk \in 1..MaxVariants : ProductVariantActivateView(u, pk)
    \/ \E u \in Callers, pk \in 1..MaxVariants : ProductVariantDeactivateView(u, pk)
    \/ \E u \in Callers, pk \in 1..MaxVariants : ProductVariantPublishView(u, pk)
    \/ \E u \in Callers, pk \in 1..MaxVariants : ProductVariantUnpublishView(u, pk)

SpecFlag == Init /\ [][NextFlag]_vars

\* The rows of table with the flag of every row set to that of the same
\* row of old: equal to old when nothing but the flag differs.
WithFlagsOf(table, old, flag) ==
    [i \in DOMAIN table |-> IF i \in DOMAIN old
                            THEN [table[i] EXCEPT ![flag] = old[i][flag]]
                            ELSE table[i]]

(***************************************************************************)
(* C28: an activate, deactivate, publish or unpublish of a product or a    *)
(* variant that is answered 200 changes the targeted flag of the targeted  *)
(* row and nothing else: user_last_modified and every other field of every *)
(* row are as before.                                                      *)
(***************************************************************************)
C28_ToggleChangesOnlyFlag ==
    [][ resp'.status = HTTP_200_OK =>
          /\ resp'.op \in { "product_activate", "product_deactivate" } =>
                /\ WithFlagsOf(products', products, "active") = products
                /\ \A i \in DOMAIN products :
                      i # resp'.pk => products'[i] = products[i]
                /\ UNCHANGED <<users, brands, categories, images, imageSeq, variants>>
          /\ resp'.op \in { "variant_activate", "variant_deactivate" } =>
                /\ WithFlagsOf(variants', variants, "active") = variants
                /\ UNCHANGED <<users, brands, categories, images, imageSeq, products>>
          /\ resp'.op \in { "variant_publish", "variant_unpublish" } =>
                /\ WithFlagsOf(variants', variants, "is_publishied") = variants
                /\ UNCHANGED <<users, brands, categories, images, imageSeq, products>> ]_vars

(***************************************************************************)
(* C29: a deactivation of a brand, category or product that is answered    *)
(* 200 changes the active flag of that record only: every other field of   *)
(* the record, every other record, and the products and variants that      *)
(* reference it, with their flags and links, are as before.                *)
(***************************************************************************)
C29_DeactivateNoCascade ==
    [][ resp'.status = HTTP_200_OK =>
          /\ resp'.op = "brand_deactivate" =>
                /\ WithFlagsOf(brands', brands, "active") = brands
                /\ \A i \in DOMAIN brands : i # resp'.pk => brands'[i] = brands[i]
                /\ UNCHANGED <<categories, products, variants, images>>
          /\ resp'.op = "category_deactivate" =>
                /\ WithFlagsOf(categories', categories, "active") = categories
                /\ \A i \in DOMAIN categories :
                      i # resp'.pk => categories'[i] = categories[i]
                /\ UNCHANGED <<brands, products, variants, images>>
          /\ resp'.op = "product_deactivate" =>
                /\ WithFlagsOf(products', products, "active") = products
                /\ \A i \in DOMAIN products : i # resp'.pk => products'[i] = products[i]
                /\ UNCHANGED <<brands, categories, variants, images>> ]_vars

\* An active product references an inactive brand.
C29_ActiveUnderInactive ==
    \E i \in DOMAIN products :
       /\ products[i].active
       /\ ~brands[products[i].brand].active

(***************************************************************************)
(* Product creates while products exist: the create is attempted with the  *)
(* table holding up to MaxProducts rows.                                   *)
(***************************************************************************)
UniqueModelNameInputs == { ModelA, <<"g", "f", "-", "6", "3">>, ModelB }

UniqueCreateInputs ==
    { ValidCreate(m, 1) : m \in UniqueModelNameInputs }
    \cup { [ValidCreate(ModelA, 1) EXCEPT !.slots[1] = [imagen |-> TRUE, alt_text |-> "front"]] }

NextUnique ==
    \/ \E u \in Callers, name \in BrandNameInputs : BrandCreateView(u, name)
    \/ \E u \in Callers, name \in CategoryNameInputs : CategoryCreateView(u, name)
    \/ \E u \in Callers, data \in UniqueCreateInputs :
          Len(products) <= MaxProducts /\ BaseProductCreateView_create(u, data)
    \/ \E u \in Callers, pk \in 1..MaxProducts + 1, data \in RenameUpdateInputs :
          BaseProductUpdateView(u, pk, data)
    \/ \E u \in Callers, pk \in 1..MaxProducts + 1 : BaseProductDeactivateView(u, pk)

SpecUnique == Init /\ [][NextUnique]_vars

\* The slug a create with data would store.
DerivedSlug(data) == BaseProduct_save(BaseProductCreate_row(data, 0)).slug

(***************************************************************************)
(* C30: no two products hold the same slug, and a valid create whose       *)
(* derived slug is held by a product is not answered 201 and leaves the    *)
(* products, their category links and the images as they were.             *)
(***************************************************************************)
C30_SlugUnique ==
    [][ /\ \A i, j \in DOMAIN products' :
             i # j => products'[i].slug # products'[j].slug
        /\ resp'.op = "product_create" =>
             \A u \in {resp'.caller}, data \in UniqueCreateInputs :
                ( /\ BaseProductCreateView_create(u, data)
                  /\ BaseProductCreate_errors(data) = {}
                  /\ \E i \in DOMAIN products : products[i].slug = DerivedSlug(data) )
                => /\ resp'.status # HTTP_201_CREATED
                   /\ UNCHANGED <<products, images, imageSeq>> ]_vars

\* A create was refused on the unique slug held by a stored product.
C30_Witness ==
    /\ resp.op = "product_create"
    /\ resp.status = 500
    /\ resp.errors = {"IntegrityError"}
    /\ Len(products) = MaxProducts

====
